---- MODULE Spec2Model ----
(***************************************************************************)
(* A model of the tekno-logger ingestion service: the Fastify request      *)
(* lifecycle for /api/log (schema validation, preHandler hooks, the route  *)
(* handlers), the two-tier rate limiter over project_minute_counters, the  *)
(* bulk insert into logs and the self-triggered maintenance task.          *)
(*                                                                         *)
(* Time is counted in minutes since the epoch (Date.now() / 60000), so     *)
(* MAINTENANCE_INTERVAL = 5 * 60 * 1000 ms is 5 and getCurrentMinute() is  *)
(* the clock itself.  Every await of the source is a point where another   *)
(* request or a maintenance task may run; code between two awaits is one   *)
(* atomic step.                                                            *)
(***************************************************************************)
EXTENDS Integers, Sequences, FiniteSets, TLC

(* ------------------------------------------------------------------ *)
(* Bounds of the model                                                 *)
(* ------------------------------------------------------------------ *)
\* Request slots: how many requests may be in flight at the same time.
MaxSlots == 2
\* Requests accepted by the server in one behaviour of Spec.
MaxArrivals == 2
\* The clock advances at most this many minutes after the start.
MaxElapsed == 5
\* Requests accepted in one behaviour of SpecAuth, SpecBatch, SpecLimiter
\* and SpecMaint.
AuthArrivals == 2
BatchArrivals == 2
LimiterArrivals == 3
MaintArrivals == 2
\* Minutes that pass in one behaviour of SpecLimiter.
LimiterElapsed == 1
\* Runs of runMaintenance, and ingests and minutes beside them.
MaxPasses == 2
AdminArrivals == 2
AdminElapsed == 5
\* Ingests and minutes (four days) of the retention specification.
RetentionArrivals == 2
RetentionElapsed == 5760
\* Ingests and minutes of the counter-expiry specification.
ExpiryArrivals == 2
ExpiryElapsed == 5
\* The shorter of its two clock steps, in minutes.
ExpiryStep == 3
\* Requests and minutes of the query specification.
QueryArrivals == 3
QueryElapsed == 1
RegistryArrivals == 3
InfraArrivals == 2
InfraElapsed == 1
MaxBodyBytes == 3
ShutdownArrivals == 2
MaxShutdowns == 2
CapArrivals == 3
CapSlots == 3
CapElapsed == 3
TriggerArrivals == 3
OrderArrivals == 2
\* Calls of withTransaction in one behaviour.
MaxTransactions == 2
\* Calls of executeBulkInsert outside a request.
MaxBulkCalls == 3
IsolationArrivals == 2
\* Calls of runDailyPurge, and ingests and minutes (four days) beside them.
MaxPurges == 1
PurgeArrivals == 2
PurgeElapsed == 5760
RouteArrivals == 3
RouteElapsed == 1
\* Date.now() at process start, in minutes since the epoch
\* (2026-11-04T10:00:00Z).
StartMinute == 29896440

(* ------------------------------------------------------------------ *)
(* Program constants and configured values                             *)
(* ------------------------------------------------------------------ *)
\* const MAINTENANCE_INTERVAL = 5 * 60 * 1000 (ms), in minutes.
MAINTENANCE_INTERVAL == 5
\* maxItems of the route's body schema and .max() of logBatchSchema.
RouteSchemaMaxItems == 250
LogBatchSchemaMax == 250
\* z.string().max(...) of logEventSchema.
MessageMax == 1024
SourceMax == 64
EnvMax == 32
UserIdMax == 64
RequestIdMax == 64
TagsMax == 128
\* SHA-256 digests are 32 bytes, 64 hex characters.
DigestBytes == 32

\* appConfig.limits.rateLimit.perIP / perProject: configured positive
\* integers (defaults 100 and 5000); the model is configured with small caps.
RateLimitPerIP == 2
RateLimitPerProject == 2
\* appConfig.limits.retentionDays (default 3).
RetentionDays == 3
\* Minutes of one day, for day_id.
MinutesPerDay == 1440

\* A header, query parameter or event field that is not present (undefined).
Undefined == "<undefined>"
\* !value of the source: an absent or an empty string.
Falsy(s) == s = Undefined \/ s = ""

(* ------------------------------------------------------------------ *)
(* Strings, hex and digests                                            *)
(* ------------------------------------------------------------------ *)
RECURSIVE Repeat(_, _)
Repeat(s, n) ==
  IF n = 0 THEN ""
  ELSE IF n % 2 = 0 THEN LET h == Repeat(s, n \div 2) IN h \o h
  ELSE s \o Repeat(s, n - 1)

CharAt(s, i) == SubSeq(s, i, i)

HexChars ==
  {"0","1","2","3","4","5","6","7","8","9",
   "a","b","c","d","e","f","A","B","C","D","E","F"}

\* The value of one hex digit; upper and lower case decode alike.
HexVal(c) ==
  CASE c = "0" -> 0 [] c = "1" -> 1 [] c = "2" -> 2 [] c = "3" -> 3
    [] c = "4" -> 4 [] c = "5" -> 5 [] c = "6" -> 6 [] c = "7" -> 7
    [] c = "8" -> 8 [] c = "9" -> 9
    [] c \in {"a","A"} -> 10 [] c \in {"b","B"} -> 11
    [] c \in {"c","C"} -> 12 [] c \in {"d","D"} -> 13
    [] c \in {"e","E"} -> 14 [] c \in {"f","F"} -> 15

\* Buffer.from(s, 'hex'): decodes two characters per byte, stops at the first
\* pair that is not hex and drops a trailing odd character.
RECURSIVE HexDecodeFrom(_, _)
HexDecodeFrom(s, i) ==
  IF i + 1 > Len(s) THEN << >>
  ELSE IF CharAt(s, i) \in HexChars /\ CharAt(s, i + 1) \in HexChars
       THEN << 16 * HexVal(CharAt(s, i)) + HexVal(CharAt(s, i + 1)) >>
            \o HexDecodeFrom(s, i + 2)
       ELSE << >>

BufferFromHex(s) == HexDecodeFrom(s, 1)

\* crypto.timingSafeEqual(a, b): throws a RangeError when the byte lengths
\* differ, otherwise tells whether the buffers are equal.
TimingSafeEqual(a, b) ==
  IF Len(a) # Len(b) THEN "throws"
  ELSE IF a = b THEN "equal" ELSE "differ"

\* createHash('sha256').update(projectKey).digest('hex'), as an injective
\* function of the key.
Sha256Hex(key) == "sha256(" \o key \o ")"

\* The request bodies of the model: the raw text received, the two hex
\* characters from which the model builds the HMAC of that text, and the
\* value JSON.parse gives for it.
LogLevels == {"debug", "info", "warn", "error", "fatal"}

BaseEvent ==
  [ts |-> Undefined, level |-> "info", message |-> "hello",
   source |-> Undefined, env |-> Undefined, stack |-> Undefined,
   user_id |-> Undefined, request_id |-> Undefined, tags |-> Undefined]

EvBoom == [BaseEvent EXCEPT !.level = "error", !.message = "boom"]
EvFatal == [BaseEvent EXCEPT !.level = "fatal", !.message = "disk full",
                             !.source = "api.database",
                             !.ts = "2026-11-04T10:00:00Z"]
EvBadLevel == [BaseEvent EXCEPT !.level = "trace"]
EvEmptyMessage == [BaseEvent EXCEPT !.message = ""]
EvLongMessage == [BaseEvent EXCEPT !.message = Repeat("m", MessageMax + 1)]
EvLongSource == [BaseEvent EXCEPT !.source = Repeat("s", SourceMax + 1)]
EvLongEnv == [BaseEvent EXCEPT !.env = Repeat("e", EnvMax + 1)]
EvLongUser == [BaseEvent EXCEPT !.user_id = Repeat("u", UserIdMax + 1)]
EvLongRequestId ==
  [BaseEvent EXCEPT !.request_id = Repeat("r", RequestIdMax + 1)]
EvLongTags == [BaseEvent EXCEPT !.tags = Repeat("t", TagsMax + 1)]
EvBadTs == [BaseEvent EXCEPT !.ts = "yesterday"]

\* A batch of n copies of one event.
Copies(e, n) == [i \in 1..n |-> e]

\* JSON.parse of a raw body: whether the object has an "events" member, and
\* its value.
Body(events) == [hasEvents |-> TRUE, events |-> events]
NoEventsBody == [hasEvents |-> FALSE, events |-> << >>]

\* The parsed querystring of GET /log, with the schema's defaults.
Query(limit, offset, level, since) ==
  [limit |-> limit, offset |-> offset, level |-> level, since |-> since]
DefaultQuery == Query(100, 0, Undefined, Undefined)

\* The signed text of a request as received (the raw body of a POST, the
\* query string of a GET): the text (named by what it holds), the hex pair
\* from which the model builds the digest of that text, and its parse.
Raw(name, code, body, query) ==
  [text |-> name, code |-> code, body |-> body, query |-> query]

\* createHmac('sha256', secret).update(raw).digest('hex'): 64 lower-case hex
\* characters, different for different raw texts of the model.
CalculateHmacSignature(raw) == Repeat(raw.code, DigestBytes)

\* The projects table: never changed by the ingestion path.
ProjectRows ==
  { [id |-> 1, slug |-> "alpha", name |-> "Alpha",
     api_key_hash |-> Sha256Hex("key-alpha"), retention_days |-> 3],
    [id |-> 2, slug |-> "beta", name |-> "Beta",
     api_key_hash |-> Sha256Hex("key-beta"), retention_days |-> 1] }

NoProject == [id |-> 0, slug |-> "", name |-> "", api_key_hash |-> "",
              retention_days |-> 0]

\* SELECT ... FROM projects WHERE api_key_hash = ? LIMIT 1
ProjectByHash(table, hash) ==
  IF \E p \in table : p.api_key_hash = hash
  THEN CHOOSE p \in table : p.api_key_hash = hash
  ELSE NoProject

(* ------------------------------------------------------------------ *)
(* Validation                                                          *)
(* ------------------------------------------------------------------ *)
\* z.string().datetime(): an ISO 8601 UTC timestamp, YYYY-MM-DDTHH:MM:SSZ.
IsIsoDatetime(s) ==
  /\ Len(s) = 20
  /\ CharAt(s, 5) = "-" /\ CharAt(s, 8) = "-" /\ CharAt(s, 11) = "T"
  /\ CharAt(s, 14) = ":" /\ CharAt(s, 17) = ":" /\ CharAt(s, 20) = "Z"

OptionalMax(s, min, max) == s = Undefined \/ (Len(s) >= min /\ Len(s) <= max)

\* logEventSchema
LogEventSchema(e) ==
  /\ e.ts = Undefined \/ IsIsoDatetime(e.ts)
  /\ e.level \in LogLevels
  /\ e.message # Undefined /\ Len(e.message) >= 1
  /\ Len(e.message) <= MessageMax
  /\ OptionalMax(e.source, 1, SourceMax)
  /\ OptionalMax(e.env, 1, EnvMax)
  /\ OptionalMax(e.user_id, 0, UserIdMax)
  /\ OptionalMax(e.request_id, 0, RequestIdMax)
  /\ OptionalMax(e.tags, 0, TagsMax)

\* logBatchSchema = z.array(logEventSchema).min(1).max(250)
LogBatchSchema(events) ==
  /\ Len(events) >= 1
  /\ Len(events) <= LogBatchSchemaMax
  /\ \A i \in 1..Len(events) : LogEventSchema(events[i])

\* The body schema of POST /log, applied by the framework before the
\* preHandler hooks and the handler: required events, an array of 1..250
\* objects.
RouteBodySchema(body) ==
  /\ body.hasEvents
  /\ Len(body.events) >= 1
  /\ Len(body.events) <= RouteSchemaMaxItems


(* ------------------------------------------------------------------ *)
(* Errors and the global error handler                                 *)
(* ------------------------------------------------------------------ *)
NoError == [kind |-> "none", message |-> "", field |-> Undefined,
            code |-> Undefined, statusCode |-> 0]

\* class ValidationError(message, field?, code?)
ValidationError(message, field, code) ==
  [kind |-> "ValidationError", message |-> message, field |-> field,
   code |-> code, statusCode |-> 0]

\* class AuthenticationError(message, code?)
AuthenticationError(message, code) ==
  [kind |-> "AuthenticationError", message |-> message, field |-> Undefined,
   code |-> code, statusCode |-> 0]

\* class RateLimitError(message, retryAfter, code?): no statusCode member.
RateLimitError(message, retryAfter, code) ==
  [kind |-> "RateLimitError", message |-> message, field |-> Undefined,
   code |-> code, statusCode |-> 0]

\* class DatabaseError(message, query?, code?), as thrown by executeQuery and
\* executeBulkInsert when the store fails.
DatabaseError(message, code) ==
  [kind |-> "DatabaseError", message |-> message, field |-> Undefined,
   code |-> code, statusCode |-> 0]

QueryFailed == DatabaseError("Query execution failed: store error",
                             "DB_QUERY_FAILED")
BulkInsertFailed == DatabaseError("Bulk insert failed: store error",
                                  "DB_BULK_INSERT_FAILED")

\* The framework's error for a body or querystring that fails the route schema.
SchemaValidationError ==
  [kind |-> "FastifyError", message |-> "body/querystring must match schema",
   field |-> Undefined, code |-> "FST_ERR_VALIDATION", statusCode |-> 400]

OrElse(v, d) == IF Falsy(v) THEN d ELSE v

\* `err_${Date.now()}_${random}`: the token that ties a reply to the log.
ErrorId == "err_<time>_<random>"

\* app.setErrorHandler: the status, code, error text and errorId of the
\* response.
ErrorHandler(error) ==
  IF error.kind = "AuthenticationError"
  THEN [status |-> 401, code |-> OrElse(error.code, "AUTHENTICATION_ERROR"),
        body |-> error.message, errorId |-> Undefined]
  ELSE IF error.kind = "ValidationError"
  THEN [status |-> 400, code |-> OrElse(error.code, "VALIDATION_ERROR"),
        body |-> error.message, errorId |-> Undefined]
  ELSE IF error.statusCode = 429
  THEN [status |-> 429, code |-> "RATE_LIMIT_EXCEEDED",
        body |-> "Rate limit exceeded", errorId |-> Undefined]
  ELSE IF error.statusCode # 0 /\ error.statusCode < 500
  THEN [status |-> error.statusCode, code |-> OrElse(error.code, "CLIENT_ERROR"),
        body |-> error.message, errorId |-> Undefined]
  ELSE [status |-> 500, code |-> "INTERNAL_ERROR",
        body |-> "Internal server error", errorId |-> ErrorId]

(* ------------------------------------------------------------------ *)
(* Authentication                                                      *)
(* ------------------------------------------------------------------ *)
\* The comparison of the X-Signature header with the expected digest, as both
\* authenticators write it: timingSafeEqual(Buffer.from(signature, 'hex'),
\* Buffer.from(expectedSignature, 'hex')).
CompareSignature(signature, expected) ==
  TimingSafeEqual(BufferFromHex(signature), BufferFromHex(expected))

\* The authentication inlined in the POST /log handler.  dbOk: whether the
\* project lookup succeeds.  Gives the error thrown (NoError when none) and
\* the project attached to the request.
InlineAuthentication(key, signature, raw, table, dbOk) ==
  LET project == ProjectByHash(table, Sha256Hex(key))
      cmp == CompareSignature(signature, CalculateHmacSignature(raw))
  IN IF Falsy(key)
     THEN [error |-> AuthenticationError("Project key required",
                                         "PROJECT_KEY_MISSING"),
           project |-> NoProject]
     ELSE IF Falsy(signature)
     THEN [error |-> AuthenticationError("Signature required",
                                         "SIGNATURE_MISSING"),
           project |-> NoProject]
     ELSE IF ~dbOk
     THEN \* the DatabaseError is caught and wrapped with its own message
          [error |-> AuthenticationError(QueryFailed.message, "AUTH_ERROR"),
           project |-> NoProject]
     ELSE IF project = NoProject
     THEN [error |-> AuthenticationError("Invalid project key",
                                         "PROJECT_NOT_FOUND"),
           project |-> NoProject]
     ELSE IF cmp = "throws"
     THEN \* the RangeError is caught and wrapped with its own message
          [error |-> AuthenticationError(
                       "Input buffers must have the same byte length",
                       "AUTH_ERROR"),
           project |-> NoProject]
     ELSE IF cmp = "differ"
     THEN [error |-> AuthenticationError("Invalid signature",
                                         "SIGNATURE_INVALID"),
           project |-> NoProject]
     ELSE [error |-> NoError, project |-> project]

\* authenticateProject of the auth plugin's preHandler hook.
AuthenticateProject(key, signature, raw, table, dbOk) ==
  LET project == ProjectByHash(table, Sha256Hex(key))
      cmp == CompareSignature(signature, CalculateHmacSignature(raw))
  IN IF Falsy(key)
     THEN [error |-> AuthenticationError("Project key required",
                                         "PROJECT_KEY_MISSING"),
           project |-> NoProject]
     ELSE IF Falsy(signature)
     THEN [error |-> AuthenticationError("Signature required",
                                         "SIGNATURE_MISSING"),
           project |-> NoProject]
     ELSE IF ~dbOk
     THEN [error |-> AuthenticationError("Authentication service unavailable",
                                         "DATABASE_ERROR"),
           project |-> NoProject]
     ELSE IF project = NoProject
     THEN [error |-> AuthenticationError("Invalid project key",
                                         "PROJECT_NOT_FOUND"),
           project |-> NoProject]
     ELSE IF cmp = "throws"
     THEN [error |-> AuthenticationError("Authentication failed", "AUTH_ERROR"),
           project |-> NoProject]
     ELSE IF cmp = "differ"
     THEN [error |-> AuthenticationError("Invalid signature",
                                         "SIGNATURE_INVALID"),
           project |-> NoProject]
     ELSE [error |-> NoError, project |-> project]


(* ------------------------------------------------------------------ *)
(* Rows of the logs table                                              *)
(* ------------------------------------------------------------------ *)
VARIABLE
  tzOffset             \* the time zone of the process: minutes east of UTC

Null == "<null>"

Substring(s, n) == IF Len(s) > n THEN SubSeq(s, 1, n) ELSE s

\* value?.substring(0, n) || null
SubstringOrNull(s, n) == IF Falsy(s) THEN Null ELSE Substring(s, n)

Digit(c) == HexVal(c)
TwoDigits(s, i) == 10 * Digit(CharAt(s, i)) + Digit(CharAt(s, i + 1))

IsLeap(y) == (y % 4 = 0 /\ y % 100 # 0) \/ y % 400 = 0

DaysBeforeMonth(y, m) ==
  LET cum == << 0, 31, 59, 90, 120, 151, 181, 212, 243, 273, 304, 334 >>
  IN cum[m] + (IF m > 2 /\ IsLeap(y) THEN 1 ELSE 0)

\* Days from 1970-01-01 to the first day of year y.
DaysBeforeYear(y) ==
  (y - 1970) * 365 + (y - 1969) \div 4 - (y - 1901) \div 100
  + (y - 1601) \div 400

\* new Date(ts).getTime() for a validated timestamp YYYY-MM-DDTHH:MM:SSZ, in
\* minutes since the epoch.
DateOf(ts) ==
  LET y == 100 * TwoDigits(ts, 1) + TwoDigits(ts, 3)
      m == TwoDigits(ts, 6)
      d == TwoDigits(ts, 9)
  IN (DaysBeforeYear(y) + DaysBeforeMonth(y, m) + d - 1) * MinutesPerDay
     + TwoDigits(ts, 12) * 60 + TwoDigits(ts, 15)

\* The calendar date of day n since 1970-01-01, as the number YYYYMMDD.
YearOfDay(n) ==
  CHOOSE y \in 1970..2099 : DaysBeforeYear(y) <= n /\ n < DaysBeforeYear(y + 1)

MonthOfDay(n) ==
  LET y == YearOfDay(n)
      d == n - DaysBeforeYear(y)
  IN CHOOSE m \in 1..12 :
       /\ DaysBeforeMonth(y, m) <= d
       /\ m = 12 \/ d < DaysBeforeMonth(y, m + 1)

Yyyymmdd(n) ==
  LET y == YearOfDay(n)
      m == MonthOfDay(n)
  IN y * 10000 + m * 100 + (n - DaysBeforeYear(y) - DaysBeforeMonth(y, m) + 1)

\* getDayId: getFullYear(), getMonth() + 1 and getDate() of the clock reading,
\* which are the date in the time zone of the process.
GetDayId(now) == Yyyymmdd((now + tzOffset) \div MinutesPerDay)

\* createHash('sha1').update(data).digest('hex').substring(0, 16), as an
\* injective function of the data.
Sha1Hex16(data) == "sha1(" \o data \o ")"

\* calculateLogFingerprint
CalculateLogFingerprint(event) ==
  Sha1Hex16(event.message \o "|"
            \o (IF Falsy(event.source) THEN "" ELSE event.source) \o "|"
            \o (IF Falsy(event.stack) THEN "" ELSE event.stack))

\* A row stored under the project_id its event names, when it names one:
\* not the program's, which reads no such member of an event.
ProcessLogEventBodyTenant(event, projectId, projectSlug, currentTime) ==
  [project_id |-> IF "project_id" \in DOMAIN event THEN event.project_id
                  ELSE projectId,
   ts |-> IF Falsy(event.ts) THEN currentTime ELSE DateOf(event.ts),
   level |-> event.level,
   message |-> Substring(event.message, MessageMax),
   source |-> Substring(IF Falsy(event.source) THEN projectSlug
                        ELSE event.source, SourceMax),
   env |-> Substring(IF Falsy(event.env) THEN "production" ELSE event.env,
                     EnvMax),
   user_id |-> SubstringOrNull(event.user_id, UserIdMax),
   request_id |-> SubstringOrNull(event.request_id, RequestIdMax),
   tags |-> SubstringOrNull(event.tags, TagsMax),
   fingerprint |-> CalculateLogFingerprint(event),
   day_id |-> GetDayId(currentTime),
   created_at |-> currentTime]

\* A row whose day is the day of the client's ts: not the program's, which
\* takes the day from the clock reading of the server.
ProcessLogEventClientDay(event, projectId, projectSlug, currentTime) ==
  [project_id |-> projectId,
   ts |-> IF Falsy(event.ts) THEN currentTime ELSE DateOf(event.ts),
   level |-> event.level,
   message |-> Substring(event.message, MessageMax),
   source |-> Substring(IF Falsy(event.source) THEN projectSlug
                        ELSE event.source, SourceMax),
   env |-> Substring(IF Falsy(event.env) THEN "production" ELSE event.env,
                     EnvMax),
   user_id |-> SubstringOrNull(event.user_id, UserIdMax),
   request_id |-> SubstringOrNull(event.request_id, RequestIdMax),
   tags |-> SubstringOrNull(event.tags, TagsMax),
   fingerprint |-> CalculateLogFingerprint(event),
   day_id |-> GetDayId(IF Falsy(event.ts) THEN currentTime
                      ELSE DateOf(event.ts)),
   created_at |-> currentTime]

\* One element of processLogEvents' result.
ProcessLogEvent(event, projectId, projectSlug, currentTime) ==
  [project_id |-> projectId,
   ts |-> IF Falsy(event.ts) THEN currentTime ELSE DateOf(event.ts),
   level |-> event.level,
   message |-> Substring(event.message, MessageMax),
   source |-> Substring(IF Falsy(event.source) THEN projectSlug
                        ELSE event.source, SourceMax),
   env |-> Substring(IF Falsy(event.env) THEN "production" ELSE event.env,
                     EnvMax),
   user_id |-> SubstringOrNull(event.user_id, UserIdMax),
   request_id |-> SubstringOrNull(event.request_id, RequestIdMax),
   tags |-> SubstringOrNull(event.tags, TagsMax),
   fingerprint |-> CalculateLogFingerprint(event),
   day_id |-> GetDayId(currentTime),
   created_at |-> currentTime]

\* processLogEvents
ProcessLogEvents(events, projectId, projectSlug, currentTime) ==
  [i \in 1..Len(events) |->
     ProcessLogEvent(events[i], projectId, projectSlug, currentTime)]

\* A store whose failing multi-row INSERT keeps the first row of the batch:
\* not the store of the program, whose statement is all-or-nothing.
ExecuteBulkInsertPartial(table, firstId, values, by, dbOk) ==
  IF Len(values) = 0
  THEN [rows |-> table, affectedRows |-> 0, failed |-> FALSE,
        statements |-> 0]
  ELSE IF dbOk
  THEN [rows |-> table \cup { [id |-> firstId + i - 1, by |-> by,
                               row |-> values[i]] : i \in 1..Len(values) },
        affectedRows |-> Len(values), failed |-> FALSE, statements |-> 1]
  ELSE [rows |-> table \cup { [id |-> firstId, by |-> by, row |-> values[1]] },
        affectedRows |-> 1, failed |-> TRUE, statements |-> 1]

\* executeBulkInsert: with no rows it returns { affectedRows: 0 } before any
\* statement; otherwise one multi-row INSERT statement, which inserts every
\* row (with consecutive AUTO_INCREMENT ids) or, when it fails, none.
\* `by` records the request that inserted the row, statements the calls of
\* pool.execute.
ExecuteBulkInsert(table, firstId, values, by, dbOk) ==
  IF Len(values) = 0
  THEN [rows |-> table, affectedRows |-> 0, failed |-> FALSE,
        statements |-> 0]
  ELSE IF dbOk
  THEN [rows |-> table \cup { [id |-> firstId + i - 1, by |-> by,
                               row |-> values[i]] : i \in 1..Len(values) },
        affectedRows |-> Len(values), failed |-> FALSE, statements |-> 1]
  ELSE [rows |-> table, affectedRows |-> 0, failed |-> TRUE,
        statements |-> 1]

(* ------------------------------------------------------------------ *)
(* Rate limiter                                                        *)
(* ------------------------------------------------------------------ *)
CounterKey(type, key, minuteUtc) == << type, key, minuteUtc >>

\* REPLACE INTO ... VALUES (?, ?, ?, 1), which starts the row again at each
\* hit: not the program's.
ReplaceCounter(table, k) ==
  IF k \in DOMAIN table THEN [table EXCEPT ![k] = 1]
  ELSE table @@ (k :> 1)

\* INSERT ... VALUES (?, ?, ?, 1) ON DUPLICATE KEY UPDATE count = count + 1
UpsertCounter(table, k) ==
  IF k \in DOMAIN table THEN [table EXCEPT ![k] = @ + 1]
  ELSE table @@ (k :> 1)

\* SELECT count ... ; return result?.count || 1
ReadCounter(table, k) ==
  IF k \in DOMAIN table /\ table[k] # 0 THEN table[k] ELSE 1

\* count > limit
LimitExceeded(count, limit) == count > limit

\* Math.max(0, limit - count)
Remaining(count, limit) == IF limit - count > 0 THEN limit - count ELSE 0

\* A DELETE that spares the minute before the cutoff: not the program's.
DeleteCountersBeforeLate(table, cutoff) ==
  [k \in {x \in DOMAIN table : x[3] >= cutoff - 1} |-> table[k]]

\* DELETE FROM project_minute_counters WHERE minute_utc < ?
DeleteCountersBefore(table, cutoff) ==
  [k \in {x \in DOMAIN table : x[3] >= cutoff} |-> table[k]]

(* ------------------------------------------------------------------ *)
(* Maintenance trigger                                                 *)
(* ------------------------------------------------------------------ *)
\* A trigger that waits for more than the interval: not the program's.
MaintenanceDueStrict(now, last) == now - last > MAINTENANCE_INTERVAL

\* The negation of the early return of checkAndTriggerMaintenance:
\* now - lastMaintenanceTime < MAINTENANCE_INTERVAL returns without a spawn.
MaintenanceDue(now, last) == ~(now - last < MAINTENANCE_INTERVAL)

\* A DELETE that removes one matching row, the oldest, at each execution
\* (DELETE ... ORDER BY id LIMIT 1): not the program's.
DeleteLogsBeforeOne(table, dayIdCutoff) ==
  LET old == {l \in table : l.row.day_id < dayIdCutoff}
  IN IF old = {} THEN table
     ELSE table \ {CHOOSE l \in old : \A m \in old : l.id <= m.id}

\* DELETE FROM logs WHERE day_id < ?
DeleteLogsBefore(table, dayIdCutoff) ==
  {l \in table : ~(l.row.day_id < dayIdCutoff)}

\* purgeOldLogs: setDate(getDate() - retentionDays) moves the clock reading
\* back by retentionDays calendar days; toISOString().slice(0, 10) is the
\* UTC date of the result.
PurgeCutoff(now, retentionDays) ==
  Yyyymmdd((now - retentionDays * MinutesPerDay) \div MinutesPerDay)


(* ------------------------------------------------------------------ *)
(* State                                                               *)
(* ------------------------------------------------------------------ *)
VARIABLES
  hooksReachRoutes,    \* whether the preHandler hooks that the auth and
                       \* rate-limit plugins add apply to the routes
  maxEventsPerPost,    \* appConfig.limits.maxEventsPerPost
  clock,               \* Date.now(), in minutes
  arrivals,            \* requests received so far
  req,                 \* the request slots
  projects,            \* table projects
  counters,            \* table project_minute_counters
  logs,                \* table logs
  nextId,              \* AUTO_INCREMENT of logs.id
  lastMaintenanceTime, \* let lastMaintenanceTime
  tasks,               \* the maintenance tasks spawned by setImmediate
  spawns,              \* the clock readings at which tasks were spawned
  maintenance_state,   \* table maintenance_state (its one row)
  passes,              \* the runs of runMaintenance (POST /admin/maintenance)
  adminReplies,        \* the replies to the requests to /admin/ routes
  signing,             \* the last verification of a signed body: the bytes
                       \* received and the bytes that were HMAC-ed
  server,              \* the HTTP server: listening, closing or closed
  pool,                \* the connection pool: open, ending, or null
  shutdowns,           \* the calls of shutdown(signal)
  transactions,        \* the calls of withTransaction
  bulkCalls,           \* the calls of executeBulkInsert made outside a request
  purges               \* the calls of runDailyPurge

vars == << hooksReachRoutes, maxEventsPerPost, clock, arrivals, req, projects,
           counters, logs, nextId, lastMaintenanceTime, tasks, spawns,
           tzOffset, maintenance_state, passes, adminReplies, signing,
           server, pool, shutdowns, transactions,
           bulkCalls, purges >>

\* What the ingest and query paths never touch.
adminVars == << tzOffset, maintenance_state, passes, adminReplies, signing,
               server, pool, shutdowns, transactions,
           bulkCalls, purges >>

Slots == 1..MaxSlots

NoRaw == Raw("", "00", NoEventsBody, DefaultQuery)

\* A request slot.  Fields up to `processed` are the request and its reply;
\* the fields after it record what happened to the request.
IdleReq ==
  [pc |-> "idle", id |-> 0, method |-> "", ip |-> "", key |-> Undefined,
   sig |-> Undefined, raw |-> NoRaw, project |-> NoProject, minute |-> 0,
   rows |-> << >>, status |-> 0, code |-> "", body |-> "",
   retryAfter |-> Undefined, remainingIP |-> -1, remainingProject |-> -1,
   received |-> 0, processed |-> 0, logs |-> << >>,
   \* what was sent
   query |-> DefaultQuery, keyGiven |-> FALSE, keyTenant |-> 0,
   sigGiven |-> FALSE, sigExact |-> FALSE, nEvents |-> 0, eventsValid |-> FALSE,
   \* what was done for it
   ipOwn |-> 0, ipCount |-> 0, projectOwn |-> 0, projectCount |-> 0,
   inserted |-> 0, insertedFor |-> {},
   finishedAt |-> 0, lastBefore |-> 0, spawned |-> 0, lookupFailed |-> FALSE,
   errorId |-> Undefined, storeFailed |-> FALSE]

\* A request as it leaves the wire: method, client address, the two headers
\* and the signed text.
Request(method, ip, key, sig, raw) ==
  [method |-> method, ip |-> ip, key |-> key, sig |-> sig, raw |-> raw]

Received(n, in) ==
  [IdleReq EXCEPT
     !.id = n, !.method = in.method, !.ip = in.ip, !.key = in.key,
     !.sig = in.sig, !.raw = in.raw, !.query = in.raw.query,
     !.keyTenant = ProjectByHash(projects, Sha256Hex(in.key)).id,
     !.keyGiven = ~Falsy(in.key),
     !.sigGiven = ~Falsy(in.sig),
     !.sigExact = (in.sig = CalculateHmacSignature(in.raw)),
     !.nEvents = Len(in.raw.body.events),
     !.eventsValid = \A i \in 1..Len(in.raw.body.events) :
                        LogEventSchema(in.raw.body.events[i])]

\* The reply is sent: the slot keeps the reply and the record of the request.
Sent(rq) ==
  [rq EXCEPT !.pc = "done", !.key = Undefined, !.sig = Undefined,
             !.raw = NoRaw, !.rows = << >>]

\* A failed request that goes on to the maintenance trigger: not the
\* program's.
FailThenTrigger(rq, error) ==
  LET h == ErrorHandler(error)
  IN [rq EXCEPT !.pc = "finish", !.status = h.status, !.code = h.code,
                !.body = h.body]

\* An error reaches the global error handler.
Fail(rq, error) ==
  LET h == ErrorHandler(error)
  IN Sent([rq EXCEPT !.status = h.status, !.code = h.code, !.body = h.body,
                     !.errorId = h.errorId])

\* A statement on the store made for an authenticated request throws.
StoreFail(rq, error) == Fail([rq EXCEPT !.storeFailed = TRUE], error)

(* ------------------------------------------------------------------ *)
(* Route handlers up to their first statement on the store's tables    *)
(* ------------------------------------------------------------------ *)
\* The querystring schema of GET /log.
RouteQuerySchema(q) ==
  /\ q.limit <= 1000
  /\ q.level = Undefined \/ q.level \in {"debug", "info", "warn", "error"}

\* POST /log from its start to the bulk insert: inline authentication,
\* logBatchSchema.parse, the maxEventsPerPost check, processLogEvents.
PostLogHandler(rq, dbOk, now) ==
  LET auth == InlineAuthentication(rq.key, rq.sig, rq.raw, projects, dbOk)
      events == rq.raw.body.events
  IN IF auth.error # NoError THEN Fail(rq, auth.error)
     ELSE IF ~LogBatchSchema(events)
     THEN Fail([rq EXCEPT !.project = auth.project],
               ValidationError("Invalid event data", "INVALID_EVENT_DATA",
                               Undefined))
     ELSE IF Len(events) > maxEventsPerPost
     THEN Fail([rq EXCEPT !.project = auth.project],
               ValidationError("Too many events", "TOO_MANY_EVENTS",
                               Undefined))
     ELSE [rq EXCEPT
             !.project = auth.project, !.key = Undefined, !.sig = Undefined,
             !.rows = ProcessLogEvents(events, auth.project.id,
                                       auth.project.slug, now),
             !.pc = "insert"]

\* GET /log up to its query.
GetLogHandler(rq) ==
  IF rq.project = NoProject
  THEN Fail(rq, ValidationError("Project authentication required",
                                "PROJECT_REQUIRED", Undefined))
  ELSE [rq EXCEPT !.pc = "query"]

\* The tenant lookup by api_key_hash is made when both headers are present;
\* the request records that a lookup made for it failed.
Looked(rq, dbOk) ==
  [rq EXCEPT !.lookupFailed = @ \/ (~dbOk /\ ~Falsy(rq.key) /\ ~Falsy(rq.sig))]

RouteHandler(rq, dbOk, now) ==
  IF rq.method = "POST" THEN PostLogHandler(Looked(rq, dbOk), dbOk, now)
  ELSE GetLogHandler(rq)

\* The auth plugin's preHandler hook, then the start of the rate-limit
\* plugin's hook (getCurrentMinute).
PreHandlerHooks(rq, dbOk, now) ==
  LET auth == AuthenticateProject(rq.key, rq.sig, rq.raw, projects, dbOk)
  IN IF auth.error # NoError THEN Fail(Looked(rq, dbOk), auth.error)
     ELSE [rq EXCEPT !.project = auth.project, !.minute = now,
                     !.pc = "ipIncrement"]

\* The framework's validation of the request against the route's schema.
RouteSchemaOk(rq) ==
  IF rq.method = "POST" THEN RouteBodySchema(rq.raw.body)
  ELSE RouteQuerySchema(rq.raw.query)

\* A request from the wire to its first statement on the store's tables:
\* schema validation, then the preHandler hooks when they apply, else the
\* route handler.
Lifecycle(rq, dbOk, now) ==
  IF ~RouteSchemaOk(rq) THEN Fail(rq, SchemaValidationError)
  ELSE IF hooksReachRoutes THEN PreHandlerHooks(rq, dbOk, now)
  ELSE RouteHandler(rq, dbOk, now)


(* ------------------------------------------------------------------ *)
(* Actions                                                             *)
(* ------------------------------------------------------------------ *)
\* A request arrives in a free slot and runs to its first statement on the
\* store's tables.
Arrive(r, in, dbOk, maxArrivals) ==
  /\ req[r].pc \in {"idle", "done"}
  /\ arrivals < maxArrivals
  /\ arrivals' = arrivals + 1
  /\ req' = [req EXCEPT ![r] = Lifecycle(Received(arrivals + 1, in), dbOk, clock)]
  /\ UNCHANGED adminVars
  /\ UNCHANGED << hooksReachRoutes, maxEventsPerPost, clock, projects,
                  counters, logs, nextId, lastMaintenanceTime, tasks, spawns >>

\* checkIpRateLimit, first statement of incrementCounter: the upsert.
IpIncrement(r, dbOk) ==
  /\ req[r].pc = "ipIncrement"
  /\ IF dbOk
     THEN /\ counters' = UpsertCounter(counters,
                           CounterKey("ip", req[r].ip, req[r].minute))
          /\ req' = [req EXCEPT
               ![r].pc = "ipRead",
               ![r].ipOwn = counters'[CounterKey("ip", req[r].ip,
                                                 req[r].minute)]]
     ELSE /\ req' = [req EXCEPT ![r] = StoreFail(req[r], QueryFailed)]
          /\ UNCHANGED counters
  /\ UNCHANGED adminVars
  /\ UNCHANGED << hooksReachRoutes, maxEventsPerPost, clock, arrivals,
                  projects, logs, nextId, lastMaintenanceTime, tasks, spawns >>

\* A limiter that goes on to the tenant tier whatever the address count
\* is: not the program's.
CheckIpRateLimitNoStop(rq, count) ==
  [rq EXCEPT !.ipCount = count,
             !.remainingIP = Remaining(count, RateLimitPerIP),
             !.pc = "projectIncrement"]

\* checkIpRateLimit after the increment: the count is read back and compared
\* with the cap.
CheckIpRateLimit(rq, count) ==
  IF LimitExceeded(count, RateLimitPerIP)
  THEN Fail([rq EXCEPT !.ipCount = count, !.retryAfter = "60"],
            RateLimitError("IP rate limit exceeded", 60,
                           "IP_RATE_LIMIT_EXCEEDED"))
  ELSE [rq EXCEPT !.ipCount = count,
                  !.remainingIP = Remaining(count, RateLimitPerIP),
                  !.pc = "projectIncrement"]

IpRead(r, dbOk) ==
  /\ req[r].pc = "ipRead"
  /\ req' = [req EXCEPT ![r] =
       IF dbOk
       THEN CheckIpRateLimit(req[r],
              ReadCounter(counters, CounterKey("ip", req[r].ip, req[r].minute)))
       ELSE StoreFail(req[r], QueryFailed)]
  /\ UNCHANGED adminVars
  /\ UNCHANGED << hooksReachRoutes, maxEventsPerPost, clock, arrivals,
                  projects, counters, logs, nextId, lastMaintenanceTime,
                  tasks, spawns >>

\* checkProjectRateLimit, the upsert.
ProjectIncrement(r, dbOk) ==
  /\ req[r].pc = "projectIncrement"
  /\ IF dbOk
     THEN /\ counters' = UpsertCounter(counters,
                           CounterKey("project", ToString(req[r].project.id),
                                      req[r].minute))
          /\ req' = [req EXCEPT
               ![r].pc = "projectRead",
               ![r].projectOwn =
                  counters'[CounterKey("project", ToString(req[r].project.id),
                                       req[r].minute)]]
     ELSE /\ req' = [req EXCEPT ![r] = StoreFail(req[r], QueryFailed)]
          /\ UNCHANGED counters
  /\ UNCHANGED adminVars
  /\ UNCHANGED << hooksReachRoutes, maxEventsPerPost, clock, arrivals,
                  projects, logs, nextId, lastMaintenanceTime, tasks, spawns >>

\* checkProjectRateLimit after the increment; a request within the cap goes
\* on to its route handler.
CheckProjectRateLimit(rq, count, dbOk, now) ==
  IF LimitExceeded(count, RateLimitPerProject)
  THEN Fail([rq EXCEPT !.projectCount = count, !.retryAfter = "60"],
            RateLimitError("Project rate limit exceeded", 60,
                           "PROJECT_RATE_LIMIT_EXCEEDED"))
  ELSE RouteHandler(
         [rq EXCEPT !.projectCount = count,
                    !.remainingProject = Remaining(count, RateLimitPerProject)],
         dbOk, now)

ProjectRead(r, dbOk, dbOk2) ==
  /\ req[r].pc = "projectRead"
  /\ req' = [req EXCEPT ![r] =
       IF dbOk
       THEN CheckProjectRateLimit(req[r],
              ReadCounter(counters,
                CounterKey("project", ToString(req[r].project.id),
                           req[r].minute)),
              dbOk2, clock)
       ELSE StoreFail(req[r], QueryFailed)]
  /\ UNCHANGED adminVars
  /\ UNCHANGED << hooksReachRoutes, maxEventsPerPost, clock, arrivals,
                  projects, counters, logs, nextId, lastMaintenanceTime,
                  tasks, spawns >>

\* bulkInsertLogs: the multi-row INSERT.
BulkInsert(r, dbOk) ==
  /\ req[r].pc = "insert"
  /\ LET res == ExecuteBulkInsert(logs, nextId, req[r].rows, req[r].id, dbOk)
     IN /\ logs' = res.rows
        /\ nextId' = nextId + res.affectedRows
        /\ req' = [req EXCEPT ![r] =
             LET rq == [req[r] EXCEPT
                          !.inserted = Cardinality(res.rows \ logs),
                          !.insertedFor =
                             {l.row.project_id : l \in res.rows \ logs}]
             IN IF res.failed THEN StoreFail(rq, BulkInsertFailed)
                ELSE [rq EXCEPT !.pc = "finish"]]
  /\ UNCHANGED adminVars
  /\ UNCHANGED << hooksReachRoutes, maxEventsPerPost, clock, arrivals,
                  projects, counters, lastMaintenanceTime, tasks, spawns >>

\* executeBulkInsert called with a list of rows by a caller that is not a
\* request: what it was given, whether it threw, the statements it executed
\* and the rows it inserted.
CallExecuteBulkInsert(values, dbOk, maxCalls) ==
  /\ Len(bulkCalls) < maxCalls
  /\ LET res == ExecuteBulkInsert(logs, nextId, values, 0, dbOk)
     IN /\ logs' = res.rows
        /\ nextId' = nextId + res.affectedRows
        /\ bulkCalls' = Append(bulkCalls,
             [given |-> Len(values), threw |-> res.failed,
              statements |-> res.statements,
              inserted |-> Cardinality(res.rows \ logs)])
  /\ UNCHANGED << hooksReachRoutes, maxEventsPerPost, clock, arrivals, req,
                  projects, counters, lastMaintenanceTime, tasks, spawns,
                  tzOffset, maintenance_state, passes, adminReplies, signing,
                  server, pool, shutdowns, transactions, purges >>

NewTask == [pc |-> "rateLimitCleanup", ran |-> {}]

\* checkAndTriggerMaintenance: whether a task is spawned, and the new value
\* of lastMaintenanceTime.
CheckAndTriggerMaintenance(now, last) ==
  IF MaintenanceDue(now, last) THEN [spawn |-> TRUE, last |-> now]
  ELSE [spawn |-> FALSE, last |-> last]

\* POST /log after the insert: the maintenance trigger, then the reply.
Finish(r) ==
  /\ req[r].pc = "finish"
  /\ LET t == CheckAndTriggerMaintenance(clock, lastMaintenanceTime)
     IN /\ lastMaintenanceTime' = t.last
        /\ tasks' = IF t.spawn THEN Append(tasks, NewTask) ELSE tasks
        /\ spawns' = IF t.spawn THEN Append(spawns, clock) ELSE spawns
        /\ req' = [req EXCEPT ![r] =
             Sent([req[r] EXCEPT
                     !.status = 200,
                     !.received = Len(req[r].raw.body.events),
                     !.processed = Len(req[r].rows),
                     !.finishedAt = clock,
                     !.lastBefore = lastMaintenanceTime,
                     !.spawned = IF t.spawn THEN 1 ELSE 0])]
  /\ UNCHANGED adminVars
  /\ UNCHANGED << hooksReachRoutes, maxEventsPerPost, clock, arrivals,
                  projects, counters, logs, nextId >>

\* A SELECT that leaves out the tenant: not the program's.
SelectLogsAnyTenant(table, projectId, q) ==
  {l \in table :
     /\ Falsy(q.level) \/ l.row.level = q.level
     /\ Falsy(q.since) \/ l.row.created_at >= DateOf(q.since)}

\* The rows GET /log selects: WHERE project_id = ? [AND level = ?]
\* [AND created_at >= ?].
SelectLogs(table, projectId, q) ==
  {l \in table :
     /\ l.row.project_id = projectId
     /\ Falsy(q.level) \/ l.row.level = q.level
     /\ Falsy(q.since) \/ l.row.created_at >= DateOf(q.since)}

\* ORDER BY created_at DESC: the orders the store may return the rows in
\* (rows of one created_at come in any order).
OrderByCreatedAtDesc(rows) ==
  {f \in [1..Cardinality(rows) -> rows] :
     \A i, j \in 1..Cardinality(rows) :
       i < j => f[i] # f[j] /\ f[i].row.created_at >= f[j].row.created_at}

\* SELECT id, level, message, source, ..., fingerprint, created_at, day_id
LogColumns(l) ==
  [id |-> l.id, level |-> l.row.level, message |-> l.row.message,
   source |-> l.row.source, fingerprint |-> l.row.fingerprint,
   created_at |-> l.row.created_at, day_id |-> l.row.day_id]

\* LIMIT ? OFFSET ?
LimitOffset(ordered, limit, offset) ==
  LET last == IF offset + limit < Len(ordered) THEN offset + limit
              ELSE Len(ordered)
  IN [i \in 1..(IF last > offset THEN last - offset ELSE 0) |->
        LogColumns(ordered[offset + i])]

\* GET /log: the query and the reply.  The store rejects a negative LIMIT or
\* OFFSET.
QueryLogs(r, dbOk) ==
  /\ req[r].pc = "query"
  /\ LET q == req[r].raw.query
     IN IF dbOk /\ q.limit >= 0 /\ q.offset >= 0
        THEN \E ordered \in
                  OrderByCreatedAtDesc(SelectLogs(logs, req[r].project.id, q)) :
               req' = [req EXCEPT ![r] =
                 Sent([req[r] EXCEPT
                         !.status = 200,
                         !.logs = LimitOffset(ordered, q.limit, q.offset)])]
        ELSE req' = [req EXCEPT ![r] = StoreFail(req[r], QueryFailed)]
  /\ UNCHANGED adminVars
  /\ UNCHANGED << hooksReachRoutes, maxEventsPerPost, clock, arrivals,
                  projects, counters, logs, nextId, lastMaintenanceTime,
                  tasks, spawns >>

\* Time passes.
Tick(d, maxElapsed) ==
  /\ clock + d <= StartMinute + maxElapsed
  /\ clock' = clock + d
  /\ UNCHANGED adminVars
  /\ UNCHANGED << hooksReachRoutes, maxEventsPerPost, arrivals, req, projects,
                  counters, logs, nextId, lastMaintenanceTime, tasks, spawns >>

\* A callback that hands the error of its task to the request that spawned
\* it: not the program's, whose reply left before the callback ran.
MaintenanceTaskFailedRethrown(rqs, t) ==
  [r \in DOMAIN rqs |->
     IF rqs[r].spawned = 1 /\ rqs[r].finishedAt = spawns[t]
     THEN Fail(rqs[r], DatabaseError("Maintenance failed", "MAINTENANCE_ERROR"))
     ELSE rqs[r]]

\* The catch of the setImmediate callback: the error of task t is logged and
\* goes no further, so the requests are as they were.
MaintenanceTaskFailed(rqs, t) == rqs

\* A step of runMaintenanceTasks that throws ends the task: the error is
\* logged and rethrown to the setImmediate callback, which logs it.
TaskStep(t, step, next, dbOk) ==
  [tasks EXCEPT ![t] =
     IF dbOk THEN [pc |-> next, ran |-> tasks[t].ran \cup {step}]
     ELSE [pc |-> "failed", ran |-> tasks[t].ran]]

\* 1. cleanupExpiredRateLimitCounters: counters older than 2 minutes.
MaintRateLimitCleanup(t, dbOk) ==
  /\ t \in DOMAIN tasks /\ tasks[t].pc = "rateLimitCleanup"
  /\ counters' = IF dbOk THEN DeleteCountersBefore(counters, clock - 2)
                 ELSE counters
  /\ tasks' = TaskStep(t, "rateLimitCleanup", "counterCleanup", dbOk)
  /\ req' = IF dbOk THEN req ELSE MaintenanceTaskFailed(req, t)
  /\ UNCHANGED adminVars
  /\ UNCHANGED << hooksReachRoutes, maxEventsPerPost, clock, arrivals,
                  projects, logs, nextId, lastMaintenanceTime, spawns >>

\* 2. cleanupExpiredCounters(120).
MaintCounterCleanup(t, dbOk) ==
  /\ t \in DOMAIN tasks /\ tasks[t].pc = "counterCleanup"
  /\ counters' = IF dbOk THEN DeleteCountersBefore(counters, clock - 120)
                 ELSE counters
  /\ tasks' = TaskStep(t, "counterCleanup", "purge", dbOk)
  /\ req' = IF dbOk THEN req ELSE MaintenanceTaskFailed(req, t)
  /\ UNCHANGED adminVars
  /\ UNCHANGED << hooksReachRoutes, maxEventsPerPost, clock, arrivals,
                  projects, logs, nextId, lastMaintenanceTime, spawns >>

\* 3. purgeOldLogs(appConfig.limits.retentionDays).
MaintPurge(t, dbOk) ==
  /\ t \in DOMAIN tasks /\ tasks[t].pc = "purge"
  /\ logs' = IF dbOk
             THEN DeleteLogsBefore(logs, PurgeCutoff(clock, RetentionDays))
             ELSE logs
  /\ tasks' = TaskStep(t, "purge", "completed", dbOk)
  /\ req' = IF dbOk THEN req ELSE MaintenanceTaskFailed(req, t)
  /\ UNCHANGED adminVars
  /\ UNCHANGED << hooksReachRoutes, maxEventsPerPost, clock, arrivals,
                  projects, counters, nextId, lastMaintenanceTime, spawns >>

\* runMaintenanceTasks run from its first statement to its last at one clock
\* reading, nothing else touching the store: the tables it leaves.
RunMaintenanceTasks(store, now) ==
  [store EXCEPT
     !.counters = DeleteCountersBefore(DeleteCountersBefore(@, now - 2),
                                       now - 120),
     !.logs = DeleteLogsBefore(@, PurgeCutoff(now, RetentionDays))]

(* ------------------------------------------------------------------ *)
(* POST /admin/maintenance: runMaintenance                             *)
(* ------------------------------------------------------------------ *)
\* setMaintenanceInProgress: UPDATE maintenance_state
\* SET maintenance_in_progress = ?
SetMaintenanceInProgress(state, inProgress) ==
  [state EXCEPT !.maintenance_in_progress = inProgress]

\* updateLastMaintenance: UPDATE maintenance_state SET last_maintenance = ?,
\* maintenance_in_progress = ? with new Date() and false.
UpdateLastMaintenance(state, now) ==
  [last_maintenance |-> now, maintenance_in_progress |-> FALSE]

\* A run of runMaintenance at its first statement.  `left` records, once the
\* run is over, whether it left the flag set, and `tasksThen` how many
\* ingest-path tasks had been spawned by then.
NewPass ==
  [pc |-> "setInProgress", left |-> FALSE, tasksThen |-> 0, set |-> FALSE]

\* The route handler is entered: runMaintenance is called, whatever the
\* flag says.
AdminMaintenance(maxPasses) ==
  /\ Len(passes) < maxPasses
  /\ passes' = Append(passes, NewPass)
  /\ UNCHANGED << hooksReachRoutes, maxEventsPerPost, clock, arrivals, req,
                  projects, counters, logs, nextId, lastMaintenanceTime, tasks,
                  spawns, tzOffset, maintenance_state, adminReplies, signing,
                  server, pool, shutdowns, transactions,
           bulkCalls, purges >>

\* A statement of the try block of runMaintenance has returned or thrown:
\* a throw enters the catch, which first tries to clear the flag.
PassStep(p, next, dbOk) ==
  [passes EXCEPT ![p].pc = IF dbOk THEN next ELSE "clearFlag"]

\* The run is over: the reply of the route is 200 (completed) or 500 (failed).
PassEnd(p, pc, state) ==
  [passes EXCEPT ![p].pc = pc, ![p].left = state.maintenance_in_progress,
                 ![p].tasksThen = Len(tasks)]

\* await setMaintenanceInProgress(true)
PassSetInProgress(p, dbOk) ==
  /\ p \in DOMAIN passes /\ passes[p].pc = "setInProgress"
  /\ maintenance_state' =
       IF dbOk THEN SetMaintenanceInProgress(maintenance_state, TRUE)
       ELSE maintenance_state
  /\ passes' = [PassStep(p, "deleteCounters", dbOk) EXCEPT ![p].set = dbOk]
  /\ UNCHANGED << hooksReachRoutes, maxEventsPerPost, clock, arrivals, req,
                  projects, counters, logs, nextId, lastMaintenanceTime, tasks,
                  spawns, tzOffset, adminReplies, signing,
                  server, pool, shutdowns, transactions,
           bulkCalls, purges >>

\* DELETE FROM project_minute_counters WHERE minute_utc < twoHoursAgoMinute
PassDeleteCounters(p, dbOk) ==
  /\ p \in DOMAIN passes /\ passes[p].pc = "deleteCounters"
  /\ counters' = IF dbOk THEN DeleteCountersBefore(counters, clock - 120)
                 ELSE counters
  /\ passes' = PassStep(p, "deleteTrackers", dbOk)
  /\ UNCHANGED << hooksReachRoutes, maxEventsPerPost, clock, arrivals, req,
                  projects, logs, nextId, lastMaintenanceTime, tasks, spawns,
                  tzOffset, maintenance_state, adminReplies, signing,
                  server, pool, shutdowns, transactions,
           bulkCalls, purges >>

\* DELETE FROM fingerprint_trackers WHERE last_seen < oneDayAgo.  No other
\* statement of the program reads or writes that table.
PassDeleteTrackers(p, dbOk) ==
  /\ p \in DOMAIN passes /\ passes[p].pc = "deleteTrackers"
  /\ passes' = PassStep(p, "updateLast", dbOk)
  /\ UNCHANGED << hooksReachRoutes, maxEventsPerPost, clock, arrivals, req,
                  projects, counters, logs, nextId, lastMaintenanceTime, tasks,
                  spawns, tzOffset, maintenance_state, adminReplies, signing,
                  server, pool, shutdowns, transactions,
           bulkCalls, purges >>

\* await updateLastMaintenance()
PassUpdateLast(p, dbOk) ==
  /\ p \in DOMAIN passes /\ passes[p].pc = "updateLast"
  /\ maintenance_state' =
       IF dbOk THEN UpdateLastMaintenance(maintenance_state, clock)
       ELSE maintenance_state
  /\ passes' = IF dbOk THEN PassEnd(p, "completed", maintenance_state')
               ELSE PassStep(p, "completed", dbOk)
  /\ UNCHANGED << hooksReachRoutes, maxEventsPerPost, clock, arrivals, req,
                  projects, counters, logs, nextId, lastMaintenanceTime, tasks,
                  spawns, tzOffset, adminReplies, signing,
                  server, pool, shutdowns, transactions,
           bulkCalls, purges >>

\* The catch: await setMaintenanceInProgress(false), whose own failure is
\* only logged; then the DatabaseError is thrown to the route.
PassClearFlag(p, dbOk) ==
  /\ p \in DOMAIN passes /\ passes[p].pc = "clearFlag"
  /\ maintenance_state' =
       IF dbOk THEN SetMaintenanceInProgress(maintenance_state, FALSE)
       ELSE maintenance_state
  /\ passes' = PassEnd(p, "failed", maintenance_state')
  /\ UNCHANGED << hooksReachRoutes, maxEventsPerPost, clock, arrivals, req,
                  projects, counters, logs, nextId, lastMaintenanceTime, tasks,
                  spawns, tzOffset, adminReplies, signing,
                  server, pool, shutdowns, transactions,
           bulkCalls, purges >>

\* A run of runMaintenance that is between its first and its last statement.
PassRunning(pass) ==
  pass.pc \in {"deleteCounters", "deleteTrackers", "updateLast", "clearFlag"}

\* A task of the ingest path that has been spawned and has not ended.
TaskPending(task) ==
  task.pc \in {"rateLimitCleanup", "counterCleanup", "purge"}

\* The process dies while a run of runMaintenance holds the flag, and is
\* started again: the requests, tasks and runs of the old process are gone,
\* lastMaintenanceTime is 0 again, the store is as it was.
Restart ==
  /\ \E p \in DOMAIN passes : PassRunning(passes[p])
  /\ passes' = [p \in DOMAIN passes |->
                  IF passes[p].pc \in {"completed", "failed", "abandoned"}
                  THEN passes[p]
                  ELSE [passes[p] EXCEPT
                          !.pc = "abandoned",
                          !.left = maintenance_state.maintenance_in_progress,
                          !.tasksThen = Len(tasks)]]
  /\ tasks' = [t \in DOMAIN tasks |->
                 IF TaskPending(tasks[t])
                 THEN [tasks[t] EXCEPT !.pc = "abandoned"] ELSE tasks[t]]
  /\ req' = [r \in DOMAIN req |-> IdleReq]
  /\ lastMaintenanceTime' = 0
  /\ UNCHANGED << hooksReachRoutes, maxEventsPerPost, clock, arrivals,
                  projects, counters, logs, nextId, spawns, tzOffset,
                  maintenance_state, adminReplies, signing,
                  server, pool, shutdowns, transactions,
           bulkCalls, purges >>


(* ------------------------------------------------------------------ *)
(* Routes outside /api/: admin, health check, static files             *)
(* ------------------------------------------------------------------ *)
\* ADMIN_TOKEN: z.string().min(32); the configured token of the model.
AdminTokenMinLength == 32
ConfiguredAdminToken == Repeat("t", AdminTokenMinLength)

\* Buffer.from(s, 'utf8') for a text of ASCII characters: one byte for each
\* character.
BufferFromUtf8(s) == [i \in 1..Len(s) |-> SubSeq(s, i, i)]

\* url.startsWith(prefix)
StartsWith(url, prefix) ==
  Len(url) >= Len(prefix) /\ SubSeq(url, 1, Len(prefix)) = prefix

\* What crypto.timingSafeEqual throws for buffers of different lengths: an
\* error with no statusCode.
RangeError ==
  [kind |-> "RangeError",
   message |-> "Input buffers must have the same byte length",
   field |-> Undefined, code |-> "ERR_CRYPTO_TIMING_SAFE_EQUAL_LENGTH",
   statusCode |-> 0]

\* authenticateAdmin: the error it throws (NoError when it returns).
AuthenticateAdmin(adminToken) ==
  IF Falsy(adminToken)
  THEN AuthenticationError("Admin token required", "ADMIN_TOKEN_MISSING")
  ELSE LET cmp == TimingSafeEqual(BufferFromUtf8(adminToken),
                                  BufferFromUtf8(ConfiguredAdminToken))
       IN IF cmp = "throws" THEN RangeError
          ELSE IF cmp = "differ"
          THEN AuthenticationError("Invalid admin token", "ADMIN_TOKEN_INVALID")
          ELSE NoError

\* The auth plugin's preHandler hook for a request outside /api/.
AuthHook(url, adminToken) ==
  IF ~StartsWith(url, "/api/") /\ ~StartsWith(url, "/admin/") THEN NoError
  ELSE IF url = "/healthz" THEN NoError
  ELSE IF StartsWith(url, "/admin/") THEN AuthenticateAdmin(adminToken)
  ELSE NoError

\* The rate-limit plugin's preHandler hook: whether checkRateLimit is called.
RateLimitApplies(url) ==
  ~(url = "/healthz" \/ StartsWith(url, "/static/"))

\* The reply to a request outside /api/ and what was done for it: `entered`
\* tells whether its route handler was entered, `counted` the counters it
\* incremented.
RouteReply(url, ip, adminToken, status, code, entered, counted) ==
  [url |-> url, ip |-> ip, token |-> adminToken, status |-> status,
   code |-> code, entered |-> entered, counted |-> counted, at |-> clock]

\* A request to a route outside /api/ from the wire to the entry of its
\* route handler: the preHandler hooks when they apply (auth, then
\* checkRateLimit with no request.project, so checkIpRateLimit only), then
\* the handler.  POST /admin/maintenance calls runMaintenance; the health
\* check and the static files reply at once.
RouteRequest(url, ip, adminToken, dbOk, maxRequests) ==
  LET k == CounterKey("ip", ip, clock)
      authError == IF hooksReachRoutes THEN AuthHook(url, adminToken)
                   ELSE NoError
      limited == hooksReachRoutes /\ authError = NoError
                   /\ RateLimitApplies(url)
      upserted == IF limited /\ dbOk THEN UpsertCounter(counters, k)
                  ELSE counters
      error == IF authError # NoError THEN authError
               ELSE IF limited /\ ~dbOk THEN QueryFailed
               ELSE IF limited /\ LimitExceeded(ReadCounter(upserted, k),
                                                RateLimitPerIP)
               THEN RateLimitError("IP rate limit exceeded", 60,
                                   "IP_RATE_LIMIT_EXCEEDED")
               ELSE NoError
      h == ErrorHandler(error)
      counted == IF limited /\ dbOk THEN {k} ELSE {}
  IN /\ Len(adminReplies) < maxRequests
     /\ counters' = upserted
     /\ adminReplies' = Append(adminReplies,
          IF error # NoError
          THEN RouteReply(url, ip, adminToken, h.status, h.code, FALSE, counted)
          ELSE RouteReply(url, ip, adminToken,
                          IF StartsWith(url, "/admin/") THEN 0 ELSE 200,
                          "", TRUE, counted))
     /\ passes' = IF error = NoError /\ url = "/admin/maintenance"
                  THEN Append(passes, NewPass) ELSE passes
     /\ UNCHANGED << hooksReachRoutes, maxEventsPerPost, clock, arrivals, req,
                     projects, logs, nextId, lastMaintenanceTime, tasks,
                     spawns, tzOffset, maintenance_state, signing,
                     server, pool, shutdowns, transactions,
           bulkCalls, purges >>

(* ------------------------------------------------------------------ *)
(* The signed material of a mutating request                           *)
(* ------------------------------------------------------------------ *)
\* U+FFFD, which a decoder puts in the place of a byte that is not UTF-8.
ReplacementChar == 65533

\* Buffer.concat(chunks).toString('utf8'): the code points of the bytes.
\* The model has one- and two-byte sequences; any other byte decodes to
\* U+FFFD.
RECURSIVE Utf8Decode(_)
Utf8Decode(bytes) ==
  IF bytes = << >> THEN << >>
  ELSE LET b == Head(bytes)
       IN IF b < 128 THEN << b >> \o Utf8Decode(Tail(bytes))
          ELSE IF /\ b \in 194..223
                  /\ Len(bytes) >= 2
                  /\ bytes[2] \in 128..191
          THEN << (b - 192) * 64 + (bytes[2] - 128) >>
                 \o Utf8Decode(Tail(Tail(bytes)))
          ELSE << ReplacementChar >> \o Utf8Decode(Tail(bytes))

\* hmac.update(text): the UTF-8 bytes of the text.
RECURSIVE Utf8Encode(_)
Utf8Encode(text) ==
  IF text = << >> THEN << >>
  ELSE LET c == Head(text)
       IN (IF c < 128 THEN << c >>
           ELSE IF c < 2048 THEN << 192 + (c \div 64), 128 + (c % 64) >>
           ELSE << 224 + (c \div 4096), 128 + ((c \div 64) % 64),
                   128 + (c % 64) >>)
          \o Utf8Encode(Tail(text))

\* JSON.stringify(JSON.parse(text)) leaves out the white space between the
\* tokens of the text: the parsed value is kept as its compact text.
Space == 32
JsonParse(text) == SelectSeq(text, LAMBDA c : c # Space)
JsonStringify(value) == value

\* The preParsing hook: request.rawBody for a POST, PUT or PATCH under /api/.
PreParsing(url, method, bytes) ==
  IF StartsWith(url, "/api/") /\ method \in {"POST", "PUT", "PATCH"}
  THEN Utf8Decode(bytes) ELSE Undefined

\* !value for a text: undefined and the empty text are falsy.
NoText(text) == text = Undefined \/ text = << >>

\* POST /log, inline: request.rawBody || JSON.stringify(request.body)
InlineRawBody(rawBody, body) ==
  IF NoText(rawBody) THEN [text |-> JsonStringify(body), fallback |-> TRUE]
  ELSE [text |-> rawBody, fallback |-> FALSE]

\* getRawRequestBody of the auth plugin, for POST, PUT and PATCH.
GetRawRequestBody(rawBody, body) ==
  IF ~NoText(rawBody) THEN [text |-> rawBody, fallback |-> FALSE]
  ELSE IF body # Undefined
  THEN [text |-> JsonStringify(body), fallback |-> TRUE]
  ELSE [text |-> << >>, fallback |-> FALSE]

NoSigning ==
  [bytes |-> << >>, verified |-> FALSE, material |-> << >>,
   fallback |-> FALSE]

\* A POST /api/log is received with the given bytes as its body: the
\* preParsing hook captures them, the body is parsed and validated against
\* the route's schema (an empty body has no events and is answered 400
\* before any authentication), and the authenticator that applies takes the
\* text it gives to the HMAC.
VerifyBody(bytes) ==
  LET rawBody == PreParsing("/api/log", "POST", bytes)
      body == IF bytes = << >> THEN Undefined
              ELSE JsonParse(Utf8Decode(bytes))
      chosen == IF hooksReachRoutes THEN GetRawRequestBody(rawBody, body)
                ELSE InlineRawBody(rawBody, body)
  IN /\ signing' =
          IF body = Undefined
          THEN [NoSigning EXCEPT !.bytes = bytes]
          ELSE [bytes |-> bytes, verified |-> TRUE,
                material |-> Utf8Encode(chosen.text),
                fallback |-> chosen.fallback]
     /\ UNCHANGED << hooksReachRoutes, maxEventsPerPost, clock, arrivals, req,
                     projects, counters, logs, nextId, lastMaintenanceTime,
                     tasks, spawns, tzOffset, maintenance_state, passes,
                     adminReplies, server, pool, shutdowns,
                  transactions, bulkCalls, purges >>

(* ------------------------------------------------------------------ *)
(* Shutdown                                                            *)
(* ------------------------------------------------------------------ *)
\* A pool that is ending or null answers no query.
PoolNull == "<null>"

\* No handler is between the arrival of its request and its reply.
Drained(rqs) == \A r \in DOMAIN rqs : rqs[r].pc \in {"idle", "done"}

\* shutdown(signal) that closes the pool before the server: not the
\* program's.
ShutdownPoolFirst == << "closeDatabase", "closeApp" >>

\* shutdown(signal): await closeApp(app), then await closeDatabase(), then
\* process.exit(0).
ShutdownOrder == << "closeApp", "closeDatabase" >>

\* The process has called process.exit.
Exited == \E s \in DOMAIN shutdowns : shutdowns[s].at > Len(ShutdownOrder)

\* The call of a step of shutdown up to its await: app.close() makes a
\* listening server stop accepting requests; closeDatabase calls pool.end()
\* when pool is not null.
CallServer(step, srv) ==
  IF step = "closeApp" /\ srv = "listening" THEN "closing" ELSE srv
CallPool(step, pl) ==
  IF step = "closeDatabase" /\ pl # PoolNull THEN "ending" ELSE pl

\* Whether the await of a step can resume: app.close() resolves once the
\* server is closed, pool.end() once the connections are ended.
Returned(step) ==
  IF step = "closeApp" THEN server = "closed" ELSE pool # "open"

\* What the rest of the step does after its await: closeDatabase sets
\* pool = null.
ReturnPool(step, pl) == IF step = "closeDatabase" THEN PoolNull ELSE pl

\* A signal (or an uncaught error) calls shutdown: the first step is called.
Signal(maxShutdowns) ==
  /\ ~Exited
  /\ Len(shutdowns) < maxShutdowns
  /\ shutdowns' = Append(shutdowns,
       [at |-> 1,
        inFlight |-> Cardinality({r \in DOMAIN req :
                                    req[r].pc \notin {"idle", "done"}})])
  /\ server' = CallServer(ShutdownOrder[1], server)
  /\ pool' = CallPool(ShutdownOrder[1], pool)
  /\ UNCHANGED << hooksReachRoutes, maxEventsPerPost, clock, arrivals, req,
                  projects, counters, logs, nextId, lastMaintenanceTime, tasks,
                  spawns, tzOffset, maintenance_state, passes, adminReplies,
                  signing, transactions, bulkCalls, purges >>

\* The closing server has no request left: its close callback runs.
ServerClosed ==
  /\ ~Exited
  /\ server = "closing"
  /\ Drained(req)
  /\ server' = "closed"
  /\ UNCHANGED << hooksReachRoutes, maxEventsPerPost, clock, arrivals, req,
                  projects, counters, logs, nextId, lastMaintenanceTime, tasks,
                  spawns, tzOffset, maintenance_state, passes, adminReplies,
                  signing, pool, shutdowns,
                  transactions, bulkCalls, purges >>

\* The await of the current step of a shutdown resumes: the step ends and
\* the next one is called, or the process exits.
Resume(s) ==
  /\ ~Exited
  /\ s \in DOMAIN shutdowns
  /\ shutdowns[s].at <= Len(ShutdownOrder)
  /\ Returned(ShutdownOrder[shutdowns[s].at])
  /\ LET step == ShutdownOrder[shutdowns[s].at]
         next == IF shutdowns[s].at < Len(ShutdownOrder)
                 THEN ShutdownOrder[shutdowns[s].at + 1] ELSE "exit"
     IN /\ shutdowns' = [shutdowns EXCEPT ![s].at = @ + 1]
        /\ server' = CallServer(next, server)
        /\ pool' = CallPool(next, ReturnPool(step, pool))
  /\ UNCHANGED << hooksReachRoutes, maxEventsPerPost, clock, arrivals, req,
                  projects, counters, logs, nextId, lastMaintenanceTime, tasks,
                  spawns, tzOffset, maintenance_state, passes, adminReplies,
                  signing, transactions, bulkCalls, purges >>

(* ------------------------------------------------------------------ *)
(* POST /admin/purge: runDailyPurge                                    *)
(* ------------------------------------------------------------------ *)
\* generateDayId(date): parseInt(date.toISOString().slice(0, 10)...), the UTC
\* date of the instant.
GenerateDayId(date) == Yyyymmdd(date \div MinutesPerDay)

\* retentionDate.setDate(retentionDate.getDate() - retention_days), then
\* generateDayId(retentionDate).
RetentionDayId(now, retentionDays) ==
  GenerateDayId(now - retentionDays * MinutesPerDay)

\* DELETE FROM logs WHERE project_id = ? AND day_id < ?
DeleteProjectLogsBefore(table, projectId, dayId) ==
  {l \in table : ~(l.row.project_id = projectId /\ l.row.day_id < dayId)}

\* SELECT id, slug, retention_days FROM projects WHERE retention_days > 0
ProjectsWithRetention(table) == {p \in table : p.retention_days > 0}

\* The orders in which the store may return a set of rows.
RECURSIVE Orders(_)
Orders(rows) ==
  IF rows = {} THEN { << >> }
  ELSE UNION { { << x >> \o rest : rest \in Orders(rows \ {x}) } : x \in rows }

\* runDailyPurge up to its loop: the SELECT of the projects.  A failing
\* statement ends the call with DatabaseError('Daily purge failed: ...').
DailyPurgeStart(maxPurges, dbOk) ==
  /\ Len(purges) < maxPurges
  /\ \E todo \in Orders(ProjectsWithRetention(projects)) :
       purges' = Append(purges,
         [pc |-> IF ~dbOk THEN "failed"
                 ELSE IF todo = << >> THEN "done" ELSE "delete",
          todo |-> IF dbOk THEN todo ELSE << >>,
          deletedLogs |-> 0, removed |-> 0])
  /\ UNCHANGED << hooksReachRoutes, maxEventsPerPost, clock, arrivals, req,
                  projects, counters, logs, nextId, lastMaintenanceTime, tasks,
                  spawns, tzOffset, maintenance_state, passes, adminReplies,
                  signing, server, pool, shutdowns, transactions, bulkCalls >>

\* One turn of the loop of runDailyPurge: the DELETE for the next project,
\* with the cutoff of the present instant; after the last project the total
\* is returned.  removed counts the rows the call took out of the table.
DailyPurgeDelete(p, dbOk) ==
  /\ p \in DOMAIN purges /\ purges[p].pc = "delete"
  /\ LET project == Head(purges[p].todo)
         left == DeleteProjectLogsBefore(logs, project.id,
                   RetentionDayId(clock, project.retention_days))
         deletedCount == Cardinality(logs \ left)
     IN IF dbOk
        THEN /\ logs' = left
             /\ purges' = [purges EXCEPT
                  ![p].todo = Tail(@),
                  ![p].deletedLogs = @ + deletedCount,
                  ![p].removed = @ + deletedCount,
                  ![p].pc = IF Len(purges[p].todo) = 1 THEN "done"
                            ELSE "delete"]
        ELSE /\ logs' = logs
             /\ purges' = [purges EXCEPT ![p].pc = "failed"]
  /\ UNCHANGED << hooksReachRoutes, maxEventsPerPost, clock, arrivals, req,
                  projects, counters, nextId, lastMaintenanceTime, tasks,
                  spawns, tzOffset, maintenance_state, passes, adminReplies,
                  signing, server, pool, shutdowns, transactions, bulkCalls >>

(* ------------------------------------------------------------------ *)
(* withTransaction                                                     *)
(* ------------------------------------------------------------------ *)
\* No error.
NoThrow == "<none>"

\* What the steps of a transaction throw when they fail.
GetConnectionError == "getConnection failed"
BeginError == "beginTransaction failed"
CallbackError == "callback failed"
CommitError == "commit failed"
RollbackError == "rollback failed"

\* A call of withTransaction before its first statement.  connection: a
\* connection was taken from the pool; callback: how the callback ended;
\* caught: the error the catch clause received; thrown: the error the call
\* ends with; released: the calls of connection.release().
IdleTx ==
  [pc |-> "idle", connection |-> FALSE, callback |-> "none",
   commitCalled |-> FALSE, committed |-> FALSE, rollbackCalled |-> FALSE,
   rolledBack |-> FALSE, caught |-> NoThrow, thrown |-> NoThrow,
   released |-> 0]

\* try { ... } catch (error): the error goes to the catch clause, whose
\* first statement is the rollback.
Catch(tx, error) == [tx EXCEPT !.pc = "rollback", !.caught = error]

\* if (!pool) throw ...; const connection = await pool.getConnection()
GetConnection(tx, thePool, ok) ==
  IF thePool = PoolNull
  THEN [tx EXCEPT !.pc = "done", !.thrown = "DB_NOT_INITIALIZED"]
  ELSE IF ok THEN [tx EXCEPT !.pc = "beginTransaction", !.connection = TRUE]
  ELSE [tx EXCEPT !.pc = "done", !.thrown = GetConnectionError]

\* await connection.beginTransaction()
BeginTransaction(tx, ok) ==
  IF ok THEN [tx EXCEPT !.pc = "callback"] ELSE Catch(tx, BeginError)

\* const result = await callback(connection)
Callback(tx, ok) ==
  IF ok THEN [tx EXCEPT !.pc = "commit", !.callback = "returned"]
  ELSE Catch([tx EXCEPT !.callback = "threw"], CallbackError)

\* await connection.commit(); return result
Commit(tx, ok) ==
  IF ok THEN [tx EXCEPT !.pc = "release", !.commitCalled = TRUE,
                        !.committed = TRUE]
  ELSE Catch([tx EXCEPT !.commitCalled = TRUE], CommitError)

\* await connection.rollback(); throw error.  A rollback that throws ends
\* the catch clause with its own error.
Rollback(tx, ok) ==
  IF ok THEN [tx EXCEPT !.pc = "release", !.rollbackCalled = TRUE,
                        !.rolledBack = TRUE, !.thrown = tx.caught]
  ELSE [tx EXCEPT !.pc = "release", !.rollbackCalled = TRUE,
                  !.thrown = RollbackError]

\* finally { connection.release() }
Release(tx) == [tx EXCEPT !.pc = "done", !.released = @ + 1]

\* One statement of call t of withTransaction; ok: whether the awaited
\* operation of the connection, or the callback, succeeds.
TxStep(t, ok) ==
  /\ transactions[t].pc # "done"
  /\ transactions' =
       [transactions EXCEPT ![t] =
          CASE @.pc = "idle" -> GetConnection(@, pool, ok)
            [] @.pc = "beginTransaction" -> BeginTransaction(@, ok)
            [] @.pc = "callback" -> Callback(@, ok)
            [] @.pc = "commit" -> Commit(@, ok)
            [] @.pc = "rollback" -> Rollback(@, ok)
            [] @.pc = "release" -> Release(@)]
  /\ UNCHANGED << hooksReachRoutes, maxEventsPerPost, clock, arrivals, req,
                  projects, counters, logs, nextId, lastMaintenanceTime, tasks,
                  spawns, tzOffset, maintenance_state, passes, adminReplies,
                  signing, server, pool, shutdowns, bulkCalls, purges >>

\* The statements of withTransaction, one action each.
WithTransaction(t, ok) == transactions[t].pc = "idle" /\ TxStep(t, ok)
TxBegin(t, ok) == transactions[t].pc = "beginTransaction" /\ TxStep(t, ok)
TxCallback(t, ok) == transactions[t].pc = "callback" /\ TxStep(t, ok)
TxCommit(t, ok) == transactions[t].pc = "commit" /\ TxStep(t, ok)
TxRollback(t, ok) == transactions[t].pc = "rollback" /\ TxStep(t, ok)
TxRelease(t) == transactions[t].pc = "release" /\ TxStep(t, TRUE)

(* ------------------------------------------------------------------ *)
(* Requests of the model                                               *)
(* ------------------------------------------------------------------ *)
KeyAlpha == "key-alpha"
KeyBeta == "key-beta"
KeyUnknown == "key-unknown"

AddressA == "203.0.113.7"
AddressB == "198.51.100.9"

RawBoom == Raw("{events:[boom]}", "a1", Body(<< EvBoom >>), DefaultQuery)
RawTwo ==
  Raw("{events:[boom,fatal]}", "b2", Body(<< EvBoom, EvFatal >>), DefaultQuery)
RawNoEvents == Raw("{}", "d4", NoEventsBody, DefaultQuery)
RawNoQuery == Raw("", "9e", NoEventsBody, DefaultQuery)

ToUpper(c) ==
  CASE c = "a" -> "A" [] c = "b" -> "B" [] c = "c" -> "C" [] c = "d" -> "D"
    [] c = "e" -> "E" [] c = "f" -> "F" [] OTHER -> c

RECURSIVE UpperCase(_)
UpperCase(s) ==
  IF s = "" THEN "" ELSE ToUpper(CharAt(s, 1)) \o UpperCase(SubSeq(s, 2, Len(s)))

\* Values of X-Signature for a signed text: the digest itself, and values that
\* are not the digest.
SigValid(raw) == CalculateHmacSignature(raw)
SigTrailingJunk(raw) == CalculateHmacSignature(raw) \o "zz"
SigOddTail(raw) == CalculateHmacSignature(raw) \o "a"
SigUpperCase(raw) == UpperCase(CalculateHmacSignature(raw))
SigOtherDigest == Repeat("0f", DigestBytes)
SigShort == "abcd"

(* ------------------------------------------------------------------ *)
(* The service                                                         *)
(* ------------------------------------------------------------------ *)
\* migrations/002_maintenance_state.sql: the row the migration inserts.
InitialMaintenanceState ==
  [last_maintenance |-> StartMinute, maintenance_in_progress |-> FALSE]

InitIn(slots, hookModes, eventCaps, zones) ==
  /\ tzOffset \in zones
  /\ maintenance_state = InitialMaintenanceState
  /\ passes = << >>
  /\ adminReplies = << >>
  /\ signing = NoSigning
  /\ server = "listening"
  /\ pool = "open"
  /\ shutdowns = << >>
  /\ transactions = [t \in 1..MaxTransactions |-> IdleTx]
  /\ bulkCalls = << >>
  /\ purges = << >>
  /\ hooksReachRoutes \in hookModes
  /\ maxEventsPerPost \in eventCaps
  /\ clock = StartMinute
  /\ arrivals = 0
  /\ req = [r \in slots |-> IdleReq]
  /\ projects = ProjectRows
  /\ counters = << >>
  /\ logs = {}
  /\ nextId = 1
  /\ lastMaintenanceTime = 0
  /\ tasks = << >>
  /\ spawns = << >>

\* The service in a process whose time zone is UTC.
InitWith(slots, hookModes, eventCaps) ==
  InitIn(slots, hookModes, eventCaps, {0})

\* The requests of the main specification: ingests of two tenants.
Requests ==
  { Request("POST", AddressA, KeyAlpha, SigValid(RawTwo), RawTwo),
    Request("POST", AddressB, KeyBeta, SigValid(RawBoom), RawBoom) }

DefaultMaxEventsPerPost == 250

\* The service: requests in flight in MaxSlots slots, the maintenance tasks
\* and the clock; every statement on the store may fail.
Init == InitWith(Slots, BOOLEAN, {DefaultMaxEventsPerPost})

Next ==
  \/ \E r \in Slots, in \in Requests, dbOk \in BOOLEAN :
        Arrive(r, in, dbOk, MaxArrivals)
  \/ \E r \in Slots, dbOk \in BOOLEAN : IpIncrement(r, dbOk)
  \/ \E r \in Slots, dbOk \in BOOLEAN : IpRead(r, dbOk)
  \/ \E r \in Slots, dbOk \in BOOLEAN : ProjectIncrement(r, dbOk)
  \/ \E r \in Slots, dbOk \in BOOLEAN, dbOk2 \in BOOLEAN :
        ProjectRead(r, dbOk, dbOk2)
  \/ \E r \in Slots, dbOk \in BOOLEAN : BulkInsert(r, dbOk)
  \/ \E r \in Slots : Finish(r)
  \/ \E t \in DOMAIN tasks, dbOk \in BOOLEAN : MaintRateLimitCleanup(t, dbOk)
  \/ \E t \in DOMAIN tasks, dbOk \in BOOLEAN : MaintCounterCleanup(t, dbOk)
  \/ \E t \in DOMAIN tasks, dbOk \in BOOLEAN : MaintPurge(t, dbOk)
  \/ \E d \in {MAINTENANCE_INTERVAL - 1, MAINTENANCE_INTERVAL} :
        Tick(d, MaxElapsed)

Spec == Init /\ [][Next]_vars

\* The rows of logs that request number n inserted.
RowsBy(n) == {l \in logs : l.by = n}

IsDonePost(rq) == rq.pc = "done" /\ rq.method = "POST"

\* C2 (batch atomicity).  A POST /api/log answered 200 reports
\* processed = received = the number of events sent, and exactly that many
\* rows were inserted by the request's single INSERT statement, all for the
\* tenant of its key; a POST answered with any other status inserted no
\* row.  A request still in flight has either inserted nothing or, past its
\* INSERT, all of its rows.
C2_BatchAtomicity ==
  \A r \in DOMAIN req :
    LET rq == req[r]
    IN /\ (IsDonePost(rq) /\ rq.status = 200) =>
            /\ rq.received = rq.nEvents
            /\ rq.processed = rq.nEvents
            /\ rq.inserted = rq.processed
            /\ Cardinality(RowsBy(rq.id)) = rq.processed
            /\ rq.insertedFor = {rq.keyTenant}
            /\ \A l \in RowsBy(rq.id) : l.row.project_id = rq.keyTenant
       /\ (IsDonePost(rq) /\ rq.status \notin 200..299) =>
            /\ rq.inserted = 0
            /\ RowsBy(rq.id) = {}
       /\ rq.pc = "finish" => Cardinality(RowsBy(rq.id)) = Len(rq.rows)
       /\ rq.pc \notin {"finish", "done", "idle"} => RowsBy(rq.id) = {}

\* C2 happens: one request was answered 200 for a batch of two events, both
\* inserted, and another was answered 500 after its INSERT failed.
C2_Witness ==
  \E r, q \in DOMAIN req :
    /\ IsDonePost(req[r]) /\ req[r].status = 200
    /\ req[r].processed = 2 /\ Cardinality(RowsBy(req[r].id)) = 2
    /\ IsDonePost(req[q]) /\ req[q].status = 500
    /\ req[q].project # NoProject /\ req[q].nEvents = 2
    /\ req[q].body = "Internal server error"

\* C7 (pipeline order), as claimed: a request has inserted rows only if the
\* address-tier counter and the tenant-tier counter were both incremented
\* for it and read within their caps.
C7_LimitedBeforeInsert ==
  \A r \in DOMAIN req :
    req[r].inserted > 0 =>
      /\ req[r].ipCount \in 1..RateLimitPerIP
      /\ req[r].projectCount \in 1..RateLimitPerProject

(* ------------------------------------------------------------------ *)
(* The maintenance trigger                                             *)
(* ------------------------------------------------------------------ *)
MaintRequests ==
  { Request("POST", AddressA, KeyAlpha, SigValid(RawBoom), RawBoom) }

\* Ingests of one tenant over MaxElapsed minutes with the maintenance tasks
\* they spawn, in the service as it is registered (the plugins' hooks do not
\* reach the routes); the clock moves by one minute or by one minute less
\* than the interval.
InitMaint == InitWith(Slots, {FALSE}, {DefaultMaxEventsPerPost})

NextMaint ==
  \/ \E r \in Slots, in \in MaintRequests, dbOk \in BOOLEAN :
        Arrive(r, in, dbOk, MaintArrivals)
  \/ \E r \in Slots, dbOk \in BOOLEAN : BulkInsert(r, dbOk)
  \/ \E r \in Slots : Finish(r)
  \/ \E t \in DOMAIN tasks, dbOk \in BOOLEAN : MaintRateLimitCleanup(t, dbOk)
  \/ \E t \in DOMAIN tasks, dbOk \in BOOLEAN : MaintCounterCleanup(t, dbOk)
  \/ \E t \in DOMAIN tasks, dbOk \in BOOLEAN : MaintPurge(t, dbOk)
  \/ \E d \in {1, MAINTENANCE_INTERVAL - 1} : Tick(d, MaxElapsed)

SpecMaint == InitMaint /\ [][NextMaint]_vars

\* C10 (maintenance trigger rule).  A successful ingest spawns a task if and
\* only if the clock it read is at least MAINTENANCE_INTERVAL past the
\* lastMaintenanceTime it read (0 at start, so the first successful ingest
\* spawns); it spawns at most one; lastMaintenanceTime is the time of the
\* latest spawn; every spawn made a task whatever became of the earlier
\* ones; two spawns are at least MAINTENANCE_INTERVAL apart.
C10_MaintenanceTrigger ==
  /\ \A r \in DOMAIN req :
       (IsDonePost(req[r]) /\ req[r].status = 200) =>
         /\ req[r].spawned \in {0, 1}
         /\ req[r].spawned = 1 <=>
              req[r].finishedAt - req[r].lastBefore >= MAINTENANCE_INTERVAL
         /\ req[r].lastBefore = 0 => req[r].spawned = 1
         /\ Len(spawns) >= 1
  /\ \A r \in DOMAIN req : req[r].status # 200 => req[r].spawned = 0
  /\ Len(tasks) = Len(spawns)
  /\ lastMaintenanceTime = IF spawns = << >> THEN 0 ELSE spawns[Len(spawns)]
  /\ \A i, j \in DOMAIN spawns :
       i < j => spawns[j] - spawns[i] >= MAINTENANCE_INTERVAL

\* C10 happens: the first ingest spawned a task, that task failed, and an
\* ingest exactly MAINTENANCE_INTERVAL later spawned the second.
C10_Witness ==
  /\ Len(spawns) = 2
  /\ spawns[2] - spawns[1] = MAINTENANCE_INTERVAL
  /\ tasks[1].pc = "failed"
  /\ \E r, q \in DOMAIN req :
       /\ req[r].status = 200 /\ req[r].lastBefore = 0 /\ req[r].spawned = 1
       /\ req[q].status = 200 /\ req[q].lastBefore = spawns[1]
       /\ req[q].spawned = 1

(* ------------------------------------------------------------------ *)
(* Authentication of the /api/log routes                               *)
(* ------------------------------------------------------------------ *)
\* POST and GET requests with and without credentials: the key of a tenant,
\* an unknown key, no key; the digest of the signed text, values that are not
\* the digest, no signature; a body without events and no credentials.
AuthRequests ==
  { Request("POST", AddressA, KeyAlpha, s, RawBoom) :
      s \in {SigValid(RawBoom), SigTrailingJunk(RawBoom), SigOddTail(RawBoom),
             SigUpperCase(RawBoom), SigOtherDigest, SigShort, Undefined} }
  \cup { Request("POST", AddressA, k, SigValid(RawBoom), RawBoom) :
           k \in {KeyUnknown, Undefined} }
  \cup { Request("POST", AddressA, Undefined, Undefined, RawNoEvents) }
  \cup { Request("GET", AddressA, KeyAlpha, s, RawNoQuery) :
           s \in {SigValid(RawNoQuery), SigOtherDigest} }
  \cup { Request("GET", AddressA, Undefined, Undefined, RawNoQuery) }

\* One request at a time, a store that answers, no maintenance.
InitAuth == InitWith({1}, BOOLEAN, {DefaultMaxEventsPerPost})

NextAuth ==
  \/ \E in \in AuthRequests : Arrive(1, in, TRUE, AuthArrivals)
  \/ IpIncrement(1, TRUE)
  \/ IpRead(1, TRUE)
  \/ ProjectIncrement(1, TRUE)
  \/ ProjectRead(1, TRUE, TRUE)
  \/ BulkInsert(1, TRUE)
  \/ Finish(1)
  \/ QueryLogs(1, TRUE)

SpecAuth == InitAuth /\ [][NextAuth]_vars

\* The request carried the key of a stored tenant and the exact digest of its
\* signed text.
ValidPair(rq) == rq.keyTenant # 0 /\ rq.sigExact

\* C1 (authentication completeness), as claimed: a request to /api/log
\* without a valid (key, signature) pair inserts no row and is answered 401.
C1_AuthCompleteness ==
  \A r \in DOMAIN req :
    (req[r].id # 0 /\ ~ValidPair(req[r])) =>
      /\ req[r].inserted = 0
      /\ req[r].pc = "done" => req[r].status = 401

\* C3 (signature mismatch), as claimed: a POST with the key of a tenant and
\* an X-Signature that is not the lower-case hex digest of the raw body is
\* answered 401 with code SIGNATURE_INVALID and inserts no row.
C3_SignatureMismatch ==
  \A r \in DOMAIN req :
    (/\ req[r].method = "POST" /\ req[r].keyTenant # 0
     /\ req[r].sigGiven /\ ~req[r].sigExact) =>
      /\ req[r].inserted = 0
      /\ req[r].pc = "done" =>
           req[r].status = 401 /\ req[r].code = "SIGNATURE_INVALID"

(* ------------------------------------------------------------------ *)
(* Validation of batches                                               *)
(* ------------------------------------------------------------------ *)
\* Values of MAX_EVENTS_PER_POST: below, at and above the 250 of the schemas.
EventCaps == {2, RouteSchemaMaxItems, 300}

\* A batch of n valid events, signed text and digest distinct for each n.
RawBatch(n) ==
  Raw("{events:[boom x " \o ToString(n) \o "]}",
      IF n % 3 = 0 THEN "e3" ELSE IF n % 3 = 1 THEN "e4" ELSE "e5",
      Body(Copies(EvBoom, n)), DefaultQuery)

\* A batch of one valid event followed by one that violates logEventSchema.
RawInvalid(e, code) ==
  Raw("{events:[boom,invalid]}", code, Body(<< EvBoom, e >>), DefaultQuery)

InvalidRaws ==
  { RawInvalid(EvBadLevel, "10"), RawInvalid(EvEmptyMessage, "11"),
    RawInvalid(EvLongMessage, "12"), RawInvalid(EvLongSource, "13"),
    RawInvalid(EvLongEnv, "14"), RawInvalid(EvLongUser, "15"),
    RawInvalid(EvLongRequestId, "16"), RawInvalid(EvLongTags, "17"),
    RawInvalid(EvBadTs, "18") }

\* Authenticated ingests: a valid batch, batches of one event more than each
\* cap, batches with one invalid event.
BatchRequests ==
  { Request("POST", AddressA, KeyAlpha, SigValid(raw), raw) :
      raw \in {RawTwo} \cup {RawBatch(cap + 1) : cap \in EventCaps}
              \cup InvalidRaws }

\* One request at a time, a store that answers, no maintenance; the cap on
\* events is any of EventCaps.
InitBatch == InitWith({1}, BOOLEAN, EventCaps)

NextBatch ==
  \/ \E in \in BatchRequests : Arrive(1, in, TRUE, BatchArrivals)
  \/ IpIncrement(1, TRUE)
  \/ IpRead(1, TRUE)
  \/ ProjectIncrement(1, TRUE)
  \/ ProjectRead(1, TRUE, TRUE)
  \/ BulkInsert(1, TRUE)
  \/ Finish(1)

SpecBatch == InitBatch /\ [][NextBatch]_vars

\* C8 (batch size cap), as claimed: an authenticated POST carrying
\* MAX_EVENTS_PER_POST + 1 events inserts no row and is answered 400 with
\* code TOO_MANY_EVENTS.
C8_BatchSizeCap ==
  \A r \in DOMAIN req :
    (/\ req[r].method = "POST" /\ ValidPair(req[r])
     /\ req[r].nEvents = maxEventsPerPost + 1) =>
      /\ req[r].inserted = 0
      /\ req[r].pc = "done" =>
           req[r].status = 400 /\ req[r].code = "TOO_MANY_EVENTS"

\* C9 (whole-batch validation), as claimed: an authenticated batch with an
\* event that violates the LogEvent schema inserts no row and is answered
\* 400 with code INVALID_EVENT_DATA.
C9_WholeBatchValidation ==
  \A r \in DOMAIN req :
    (/\ req[r].method = "POST" /\ ValidPair(req[r])
     /\ req[r].nEvents >= 1 /\ ~req[r].eventsValid) =>
      /\ req[r].inserted = 0
      /\ req[r].pc = "done" =>
           req[r].status = 400 /\ req[r].code = "INVALID_EVENT_DATA"

(* ------------------------------------------------------------------ *)
(* The rate limiter                                                    *)
(* ------------------------------------------------------------------ *)
\* Authenticated ingests of one tenant from two addresses.
LimiterRequests ==
  { Request("POST", ip, KeyAlpha, SigValid(RawBoom), RawBoom) :
      ip \in {AddressA, AddressB} }

\* The service with the plugins' preHandler hooks applied to the routes:
\* concurrent requests, a store that answers, a clock that may pass into the
\* next minute.
InitLimiter == InitWith(Slots, {TRUE}, {DefaultMaxEventsPerPost})

NextLimiter ==
  \/ \E r \in Slots, in \in LimiterRequests :
        Arrive(r, in, TRUE, LimiterArrivals)
  \/ \E r \in Slots : IpIncrement(r, TRUE)
  \/ \E r \in Slots : IpRead(r, TRUE)
  \/ \E r \in Slots : ProjectIncrement(r, TRUE)
  \/ \E r \in Slots : ProjectRead(r, TRUE, TRUE)
  \/ \E r \in Slots : BulkInsert(r, TRUE)
  \/ \E r \in Slots : Finish(r)
  \/ Tick(1, LimiterElapsed)

SpecLimiter == InitLimiter /\ [][NextLimiter]_vars

\* C4 (rate-limit rejection), as claimed: a request whose counter read
\* exceeds the cap of a tier is answered 429 with Retry-After: 60 and the
\* code of the tier.
C4_RateLimitRejection ==
  \A r \in DOMAIN req :
    req[r].pc = "done" =>
      /\ req[r].ipCount > RateLimitPerIP =>
           /\ req[r].status = 429 /\ req[r].retryAfter = "60"
           /\ req[r].code = "IP_RATE_LIMIT_EXCEEDED"
      /\ req[r].projectCount > RateLimitPerProject =>
           /\ req[r].status = 429 /\ req[r].retryAfter = "60"
           /\ req[r].code = "PROJECT_RATE_LIMIT_EXCEEDED"

\* C5 (atomic increment-and-read), as claimed: the count a request reads
\* back is the count as of its own increment, so two requests on one
\* (kind, key, minute) counter read different counts, and a request is
\* rejected only if the count as of its own increment exceeds the cap.
C5_AtomicIncrementAndRead ==
  /\ \A r \in DOMAIN req :
       /\ req[r].ipCount # 0 => req[r].ipCount = req[r].ipOwn
       /\ req[r].projectCount # 0 => req[r].projectCount = req[r].projectOwn
  /\ \A r, q \in DOMAIN req :
       (/\ r # q /\ req[r].ipCount # 0 /\ req[q].ipCount # 0
        /\ req[r].ip = req[q].ip /\ req[r].minute = req[q].minute) =>
         req[r].ipCount # req[q].ipCount

\* The request passed the address tier of the limiter.
PassedIp(rq) == rq.remainingIP >= 0

\* C6 (rate-limit monotonicity), as claimed: for requests of one address
\* and minute that pass the limiter, X-RateLimit-Remaining-IP is
\* max(0, cap - count), and it strictly decreases from each request to the
\* next (in the order of their increments); a request whose count exceeds
\* the cap is rejected.
C6_RemainingStrictlyDecreases ==
  /\ \A r \in DOMAIN req :
       /\ PassedIp(req[r]) =>
            req[r].remainingIP = Remaining(req[r].ipCount, RateLimitPerIP)
       /\ req[r].ipCount > RateLimitPerIP =>
            req[r].pc = "done" /\ req[r].status >= 400 /\ req[r].inserted = 0
  /\ \A r, q \in DOMAIN req :
       (/\ PassedIp(req[r]) /\ PassedIp(req[q])
        /\ req[r].ip = req[q].ip /\ req[r].minute = req[q].minute
        /\ req[r].ipOwn < req[q].ipOwn) =>
         req[r].remainingIP > req[q].remainingIP

(* ------------------------------------------------------------------ *)
(* Maintenance tasks and the replies of the ingests that spawned them   *)
(* ------------------------------------------------------------------ *)
\* The task spawned by the ingest of slot r.
TaskOf(r) ==
  {t \in DOMAIN tasks : req[r].spawned = 1 /\ spawns[t] = req[r].finishedAt}

\* C11: the reply of an ingest that spawned a maintenance task is the 200
\* reply of a successful ingest, counting every event of the batch, and once
\* sent it never changes, whether the task then succeeds, throws or never
\* ends.
C11_MaintenanceNeverAffectsResponse ==
  /\ [](\A r \in Slots :
          req[r].spawned = 1 =>
            /\ req[r].pc = "done"
            /\ req[r].status = 200
            /\ req[r].code = ""
            /\ req[r].received = req[r].nEvents
            /\ req[r].processed = req[r].nEvents)
  /\ [][\A r \in Slots :
          req[r].pc = "done" /\ req'[r].id = req[r].id => req'[r] = req[r]]_vars

\* An ingest answered 200 whose maintenance task has thrown.
C11_Witness ==
  \E r \in Slots : \E t \in TaskOf(r) :
    /\ req[r].pc = "done"
    /\ req[r].status = 200
    /\ tasks[t].pc = "failed"

\* runMaintenanceTasks: its steps, in the order of its awaits.
MaintenanceSteps == << "rateLimitCleanup", "counterCleanup", "purge" >>

\* The steps a task has executed: those that returned and, for a task that
\* threw, the step that threw.
StepsExecuted(task) ==
  task.ran \cup (IF task.pc = "failed"
                 THEN {MaintenanceSteps[Cardinality(task.ran) + 1]} ELSE {})

\* C12: a maintenance task that has ended has executed each of its three
\* steps (expired rate-limit counters, expired store counters, purge of old
\* logs), whether or not another of its steps threw.
C12_StepIsolation ==
  \A t \in DOMAIN tasks :
    tasks[t].pc \in {"completed", "failed"} =>
      \A i \in DOMAIN MaintenanceSteps :
        MaintenanceSteps[i] \in StepsExecuted(tasks[t])

(* ------------------------------------------------------------------ *)
(* The maintenance flag: ingests, their tasks, and runs of             *)
(* runMaintenance in a process that can die                            *)
(* ------------------------------------------------------------------ *)
InitAdmin == InitWith({1}, {FALSE}, {DefaultMaxEventsPerPost})

\* What the event loop does once the store has answered.
AdminSteps ==
  \/ BulkInsert(1, TRUE)
  \/ Finish(1)
  \/ \E t \in 1..AdminArrivals : MaintRateLimitCleanup(t, TRUE)
  \/ \E t \in 1..AdminArrivals : MaintCounterCleanup(t, TRUE)
  \/ \E t \in 1..AdminArrivals : MaintPurge(t, TRUE)
  \/ \E p \in 1..MaxPasses : \E dbOk \in BOOLEAN : PassSetInProgress(p, dbOk)
  \/ \E p \in 1..MaxPasses : \E dbOk \in BOOLEAN : PassDeleteCounters(p, dbOk)
  \/ \E p \in 1..MaxPasses : \E dbOk \in BOOLEAN : PassDeleteTrackers(p, dbOk)
  \/ \E p \in 1..MaxPasses : \E dbOk \in BOOLEAN : PassUpdateLast(p, dbOk)
  \/ \E p \in 1..MaxPasses : \E dbOk \in BOOLEAN : PassClearFlag(p, dbOk)

NextAdmin ==
  \/ \E in \in MaintRequests : Arrive(1, in, TRUE, AdminArrivals)
  \/ AdminMaintenance(MaxPasses)
  \/ AdminSteps
  \/ Tick(MAINTENANCE_INTERVAL, AdminElapsed)
  \/ Restart

\* Clients, operators, the clock and crashes owe nothing; a statement whose
\* answer from the store is due is run by the event loop.
SpecAdmin == InitAdmin /\ [][NextAdmin]_vars /\ WF_vars(AdminSteps)

\* The passes that are between their first cleanup statement and their end.
CleanupRunning ==
  { << "task", t >> : t \in {u \in DOMAIN tasks :
                               tasks[u].pc \in {"counterCleanup", "purge"}} }
  \cup
  { << "pass", p >> : p \in {q \in DOMAIN passes :
       passes[q].pc \in {"deleteCounters", "deleteTrackers", "updateLast"}} }

\* C13: while a maintenance pass (a task of the ingest path or a run of
\* runMaintenance) executes its cleanup steps, the in_progress flag of the
\* store is set and no other pass executes cleanup steps.
C13_StoreWideLock ==
  /\ Cardinality(CleanupRunning) <= 1
  /\ CleanupRunning # {} => maintenance_state.maintenance_in_progress

\* A run of runMaintenance that was abandoned, or failed, leaving the flag
\* set, and a task that a later ingest triggered and that has completed.
AbandonedThenTriggered ==
  \E p \in DOMAIN passes :
    /\ passes[p].pc \in {"abandoned", "failed"}
    /\ passes[p].left
    /\ \E t \in DOMAIN tasks :
         t > passes[p].tasksThen /\ tasks[t].pc = "completed"

\* C14: once a pass was abandoned with in_progress = true and a later trigger
\* has run maintenance, the flag is reset: in_progress is false again at
\* some later time.
C14_CrashSelfHealing ==
  [](AbandonedThenTriggered =>
       <>(~maintenance_state.maintenance_in_progress))

(* ------------------------------------------------------------------ *)
(* Retention: ingests, days passing and the purge of the maintenance   *)
(* task, in processes of several time zones                            *)
(* ------------------------------------------------------------------ *)
\* Time zones of the process, in minutes east of UTC: UTC-11, UTC, UTC+14.
TimeZones == {-660, 0, 840}

InitRetention == InitIn({1}, BOOLEAN, {DefaultMaxEventsPerPost}, TimeZones)

NextRetention ==
  \/ \E in \in MaintRequests : Arrive(1, in, TRUE, RetentionArrivals)
  \/ IpIncrement(1, TRUE)
  \/ IpRead(1, TRUE)
  \/ ProjectIncrement(1, TRUE)
  \/ ProjectRead(1, TRUE, TRUE)
  \/ BulkInsert(1, TRUE)
  \/ Finish(1)
  \/ \E t \in 1..RetentionArrivals : MaintRateLimitCleanup(t, TRUE)
  \/ \E t \in 1..RetentionArrivals : MaintCounterCleanup(t, TRUE)
  \/ \E t \in 1..RetentionArrivals : MaintPurge(t, TRUE)
  \/ Tick(MinutesPerDay, RetentionElapsed)

SpecRetention == InitRetention /\ [][NextRetention]_vars

\* The day that is retentionDays days before the day the ingestion path
\* assigns at clock reading now, as a YYYYMMDD number.
RetentionFloor(now, retentionDays) ==
  Yyyymmdd((now + tzOffset) \div MinutesPerDay - retentionDays)

\* C15: when a maintenance task completes without error, no row of logs has
\* a day_id earlier than today - RetentionDays, today being the day_id the
\* ingestion path assigns at that instant.
C15_RetentionBound ==
  [][\A t \in DOMAIN tasks :
       tasks[t].pc = "purge" /\ tasks'[t].pc = "completed" =>
         \A l \in logs' :
           ~(l.row.day_id < RetentionFloor(clock', RetentionDays))]_vars

(* ------------------------------------------------------------------ *)
(* Counter expiry: rate-limited ingests beside the maintenance tasks   *)
(* they spawn                                                          *)
(* ------------------------------------------------------------------ *)
InitExpiry == InitWith(Slots, {TRUE}, {DefaultMaxEventsPerPost})

NextExpiry ==
  \/ \E r \in Slots, in \in MaintRequests : Arrive(r, in, TRUE, ExpiryArrivals)
  \/ \E r \in Slots : IpIncrement(r, TRUE)
  \/ \E r \in Slots : IpRead(r, TRUE)
  \/ \E r \in Slots : ProjectIncrement(r, TRUE)
  \/ \E r \in Slots : ProjectRead(r, TRUE, TRUE)
  \/ \E r \in Slots : BulkInsert(r, TRUE)
  \/ \E r \in Slots : Finish(r)
  \/ \E t \in 1..ExpiryArrivals : MaintRateLimitCleanup(t, TRUE)
  \/ \E t \in 1..ExpiryArrivals : MaintCounterCleanup(t, TRUE)
  \/ \E t \in 1..ExpiryArrivals : MaintPurge(t, TRUE)
  \/ \E d \in {ExpiryStep, MAINTENANCE_INTERVAL} : Tick(d, ExpiryElapsed)

SpecExpiry == InitExpiry /\ [][NextExpiry]_vars

Store ==
  [counters |-> counters, logs |-> logs, maintenance_state |-> maintenance_state]

\* C17: in every state of the service, running the maintenance task twice
\* back to back at the same clock reading leaves logs,
\* project_minute_counters and maintenance_state as running it once does:
\* the second run deletes nothing.
C17_IdempotentMaintenance ==
  LET once == RunMaintenanceTasks(Store, clock)
  IN RunMaintenanceTasks(once, clock) = once

\* A state in which one run of the task deletes two rows of logs and a
\* counter.
C17_Witness ==
  LET once == RunMaintenanceTasks(Store, clock)
  IN /\ Cardinality(logs \ once.logs) >= 2
     /\ DOMAIN once.counters # DOMAIN counters
     /\ RunMaintenanceTasks(once, clock) = once

(* ------------------------------------------------------------------ *)
(* GET /log after ingests of two tenants                               *)
(* ------------------------------------------------------------------ *)
\* The instant one minute after the start of the model, as a client writes
\* it.
SinceSecondMinute == "2026-11-04T10:01:00Z"

\* Query strings: none, each level with a limit, a limit of one row, an
\* offset, a since filter, a limit above the cap, a negative limit.
Queries ==
  { DefaultQuery }
  \cup { Query(10, 0, level, Undefined) : level \in LogLevels }
  \cup { Query(1, 0, Undefined, Undefined), Query(100, 1, Undefined, Undefined),
         Query(100, 0, Undefined, SinceSecondMinute),
         Query(1001, 0, Undefined, Undefined),
         Query(-1, 0, Undefined, Undefined) }

\* The signed text of a GET is its query string.
RawQuery(q) ==
  Raw("?limit=" \o ToString(q.limit) \o "&offset=" \o ToString(q.offset)
        \o "&level=" \o q.level \o "&since=" \o q.since,
      "c3", NoEventsBody, q)

QueryRequests ==
  { Request("POST", AddressA, KeyAlpha, SigValid(RawTwo), RawTwo),
    Request("POST", AddressB, KeyBeta, SigValid(RawBoom), RawBoom) }
  \cup { Request("GET", AddressB, KeyAlpha, SigValid(RawQuery(q)), RawQuery(q)) :
           q \in Queries }

\* One request at a time, a store that answers, no maintenance; the clock may
\* pass into the next minute.
InitQuery == InitWith({1}, BOOLEAN, {DefaultMaxEventsPerPost})

NextQuery ==
  \/ \E in \in QueryRequests : Arrive(1, in, TRUE, QueryArrivals)
  \/ IpIncrement(1, TRUE)
  \/ IpRead(1, TRUE)
  \/ ProjectIncrement(1, TRUE)
  \/ ProjectRead(1, TRUE, TRUE)
  \/ BulkInsert(1, TRUE)
  \/ Finish(1)
  \/ QueryLogs(1, TRUE)
  \/ Tick(1, QueryElapsed)

SpecQuery == InitQuery /\ [][NextQuery]_vars

\* The stored row behind a returned row.
StoredRow(item) == CHOOSE l \in logs : l.id = item.id

\* A GET that was answered with rows.
IsAnsweredGet(rq) == rq.pc = "done" /\ rq.method = "GET" /\ rq.status = 200

\* C18: the rows a GET /log of tenant T returns are rows of T and of no
\* other tenant, at most limit of them with limit <= 1000, in descending
\* order of created_at, and each matches the level and since filters given.
C18_TenantScopedQuery ==
  \A r \in DOMAIN req :
    IsAnsweredGet(req[r]) =>
      LET rq == req[r]
          n == Len(rq.logs)
      IN /\ rq.keyTenant # 0 /\ rq.project.id = rq.keyTenant
         /\ \A i \in 1..n :
              /\ \E l \in logs : l.id = rq.logs[i].id
              /\ StoredRow(rq.logs[i]).row.project_id = rq.keyTenant
              /\ Falsy(rq.query.level) \/ rq.logs[i].level = rq.query.level
              /\ Falsy(rq.query.since)
                   \/ rq.logs[i].created_at >= DateOf(rq.query.since)
         /\ n <= rq.query.limit /\ rq.query.limit <= 1000
         /\ \A i, j \in 1..n :
              i < j => rq.logs[i].created_at >= rq.logs[j].created_at

\* A GET with a level filter that returned rows while the table holds a row
\* of another tenant, and a GET whose limit cut the result short.
C18_Witness ==
  \E r \in DOMAIN req :
    /\ IsAnsweredGet(req[r])
    /\ Len(req[r].logs) >= 1
    /\ \E l \in logs : l.row.project_id # req[r].keyTenant
    /\ \/ ~Falsy(req[r].query.level)
       \/ /\ Len(req[r].logs) = req[r].query.limit
          /\ \E l \in logs :
               /\ l.row.project_id = req[r].keyTenant
               /\ \A i \in 1..Len(req[r].logs) : req[r].logs[i].id # l.id

\* A GET with the key of a tenant and the digest of its query string, which
\* the limiter let pass, with a level filter, no since filter, no offset and
\* a limit that is in the range of the schema.
IsLevelQuery(rq) ==
  /\ rq.pc = "done" /\ rq.method = "GET"
  /\ rq.keyTenant # 0 /\ rq.sigExact
  /\ rq.ipCount <= RateLimitPerIP /\ rq.projectCount <= RateLimitPerProject
  /\ rq.query.level \in LogLevels
  /\ Falsy(rq.query.since) /\ rq.query.offset = 0
  /\ rq.query.limit \in 0..1000

\* The rows of the tenant of rq that have the level rq asks for.
RowsOfLevel(rq) ==
  {l \in logs : l.row.project_id = rq.keyTenant /\ l.row.level = rq.query.level}

\* An absent part of the fingerprint contributes the empty string.
PartOrEmpty(x) == IF x = Undefined THEN "" ELSE x

\* C19: a GET /log of tenant T with a level filter, after successful ingests
\* of T and before any purge, returns for each stored event of that level a
\* row with the message and the level of the event and with the fingerprint
\* sha1(message|source|ctx.stack) cut to 16 characters, an absent source or
\* stack contributing the empty string.
C19_RoundTrip ==
  \A r \in DOMAIN req :
    IsLevelQuery(req[r]) /\ Cardinality(RowsOfLevel(req[r])) <= req[r].query.limit
    => \A l \in RowsOfLevel(req[r]) :
         \E i \in 1..Len(req[r].logs) : \E e \in {EvBoom, EvFatal} :
           /\ req[r].logs[i].id = l.id
           /\ e.message = l.row.message /\ e.level = l.row.level
           /\ req[r].logs[i].message = e.message
           /\ req[r].logs[i].level = e.level
           /\ req[r].logs[i].fingerprint =
                Sha1Hex16(e.message \o "|" \o PartOrEmpty(e.source) \o "|"
                          \o PartOrEmpty(e.stack))

\* C20: where the hooks of the plugins apply to the routes, a GET /log with
\* any of the five levels of ingestion as its level filter is answered 200
\* with exactly the rows of the tenant that have that level.
C20_QueryLevelFilter ==
  \A r \in DOMAIN req :
    /\ hooksReachRoutes
    /\ IsLevelQuery(req[r])
    /\ Cardinality(RowsOfLevel(req[r])) <= req[r].query.limit
    => /\ req[r].status = 200
       /\ {req[r].logs[i].id : i \in 1..Len(req[r].logs)}
            = {l.id : l \in RowsOfLevel(req[r])}

(* ------------------------------------------------------------------ *)
(* Day buckets: batches with a client ts, days passing, the purge      *)
(* ------------------------------------------------------------------ *)
\* Ingests of two events, one of which carries a ts of the client.
DayRequests ==
  { Request("POST", AddressA, KeyAlpha, SigValid(RawTwo), RawTwo) }

InitDay == InitIn({1}, {FALSE}, {DefaultMaxEventsPerPost}, TimeZones)

NextDay ==
  \/ \E in \in DayRequests : Arrive(1, in, TRUE, RetentionArrivals)
  \/ BulkInsert(1, TRUE)
  \/ Finish(1)
  \/ \E t \in 1..RetentionArrivals : MaintRateLimitCleanup(t, TRUE)
  \/ \E t \in 1..RetentionArrivals : MaintCounterCleanup(t, TRUE)
  \/ \E t \in 1..RetentionArrivals : MaintPurge(t, TRUE)
  \/ Tick(MinutesPerDay, RetentionElapsed)

SpecDay == InitDay /\ [][NextDay]_vars

WrongAdminToken == Repeat("x", AdminTokenMinLength)
ShortAdminToken == "guess"
LongAdminToken == ConfiguredAdminToken \o "t"
AdminTokens == {Undefined, ConfiguredAdminToken, WrongAdminToken,
                ShortAdminToken, LongAdminToken}

\* The requests outside /api/: POST /admin/maintenance with each token, the
\* health check, a file of the public directory (served at the root) and a
\* path under /static/.
RouteInputs ==
  {<< "/admin/maintenance", t >> : t \in AdminTokens}
    \cup {<< u, Undefined >> : u \in {"/healthz", "/js/app.js", "/static/app.js"}}

\* Requests outside /api/ from one address during two minutes, with the
\* runs of runMaintenance they start, with and without the plugins' hooks.
InitRoutes == InitWith({1}, BOOLEAN, {DefaultMaxEventsPerPost})

NextRoutes ==
  \/ \E in \in RouteInputs, dbOk \in BOOLEAN :
       RouteRequest(in[1], AddressA, in[2], dbOk, RouteArrivals)
  \/ \E p \in 1..RouteArrivals :
       \/ PassSetInProgress(p, TRUE)
       \/ \E dbOk \in BOOLEAN : PassDeleteCounters(p, dbOk)
       \/ PassDeleteTrackers(p, TRUE)
       \/ PassUpdateLast(p, TRUE)
       \/ PassClearFlag(p, TRUE)
  \/ Tick(1, RouteElapsed)

SpecRoutes == InitRoutes /\ [][NextRoutes]_vars

IsAdminReply(a) == StartsWith(a.url, "/admin/")

\* C22: a request to an /admin/ route without X-Admin-Token is answered 401
\* ADMIN_TOKEN_MISSING, one with a token other than the configured one (of
\* any length) 401 ADMIN_TOKEN_INVALID, and the route handler is entered
\* only for the exact token.
C22_AdminMode ==
  \A i \in DOMAIN adminReplies :
    LET a == adminReplies[i]
    IN IsAdminReply(a) =>
         /\ a.token = Undefined =>
              a.status = 401 /\ a.code = "ADMIN_TOKEN_MISSING"
         /\ a.token \notin {Undefined, ConfiguredAdminToken} =>
              a.status = 401 /\ a.code = "ADMIN_TOKEN_INVALID"
         /\ a.entered => a.token = ConfiguredAdminToken

(* ------------------------------------------------------------------ *)
(* Registry failure during authentication                              *)
(* ------------------------------------------------------------------ *)
RegistryRequests ==
  { Request("POST", AddressA, KeyAlpha, SigValid(RawBoom), RawBoom),
    Request("POST", AddressA, KeyUnknown, SigValid(RawBoom), RawBoom),
    Request("POST", AddressA, Undefined, SigValid(RawBoom), RawBoom),
    Request("GET", AddressA, KeyAlpha, SigValid(RawNoQuery), RawNoQuery) }

\* One request at a time; each lookup in the projects table may fail; the
\* other statements on the store succeed.
InitRegistry == InitWith({1}, BOOLEAN, {DefaultMaxEventsPerPost})

NextRegistry ==
  \/ \E in \in RegistryRequests, dbOk \in BOOLEAN :
       Arrive(1, in, dbOk, RegistryArrivals)
  \/ IpIncrement(1, TRUE)
  \/ IpRead(1, TRUE)
  \/ ProjectIncrement(1, TRUE)
  \/ \E dbOk \in BOOLEAN : ProjectRead(1, TRUE, dbOk)
  \/ BulkInsert(1, TRUE)
  \/ Finish(1)
  \/ QueryLogs(1, TRUE)

SpecRegistry == InitRegistry /\ [][NextRegistry]_vars

\* C23: a request for which the tenant lookup failed is answered 401 with
\* code DATABASE_ERROR, its reply does not carry the store's error text, and
\* no row is inserted for it.
C23_RegistryFailure ==
  \A r \in DOMAIN req :
    (req[r].lookupFailed /\ req[r].pc = "done") =>
      /\ req[r].status = 401
      /\ req[r].code = "DATABASE_ERROR"
      /\ req[r].body # QueryFailed.message
      /\ req[r].inserted = 0

(* ------------------------------------------------------------------ *)
(* Infrastructure failures                                             *)
(* ------------------------------------------------------------------ *)
\* The reply of POST /admin/maintenance for a run of runMaintenance that is
\* over: the route's own catch answers a failed run.
MaintenanceReply(pass) ==
  IF pass.pc = "failed"
  THEN [status |-> 500, code |-> Undefined, body |-> "Maintenance failed",
        details |-> "Maintenance failed: " \o QueryFailed.message,
        errorId |-> Undefined]
  ELSE [status |-> 200, code |-> Undefined,
        body |-> "Maintenance completed successfully", details |-> Undefined,
        errorId |-> Undefined]

InfraRequests ==
  { Request("POST", AddressA, KeyAlpha, SigValid(RawBoom), RawBoom),
    Request("GET", AddressA, KeyAlpha, SigValid(RawNoQuery), RawNoQuery) }

\* Authenticated requests and manual maintenance runs over a store whose
\* every statement after the tenant lookup may fail.
InitInfra == InitWith({1}, BOOLEAN, {DefaultMaxEventsPerPost})

NextInfra ==
  \/ \E in \in InfraRequests : Arrive(1, in, TRUE, InfraArrivals)
  \/ \E dbOk \in BOOLEAN :
       \/ IpIncrement(1, dbOk)
       \/ IpRead(1, dbOk)
       \/ ProjectIncrement(1, dbOk)
       \/ ProjectRead(1, dbOk, TRUE)
       \/ BulkInsert(1, dbOk)
       \/ QueryLogs(1, dbOk)
       \/ PassSetInProgress(1, dbOk)
       \/ PassDeleteCounters(1, dbOk)
       \/ PassDeleteTrackers(1, dbOk)
       \/ PassUpdateLast(1, dbOk)
       \/ PassClearFlag(1, dbOk)
  \/ Finish(1)
  \/ AdminMaintenance(1)
  \/ Tick(MAINTENANCE_INTERVAL, MAINTENANCE_INTERVAL * InfraElapsed)

SpecInfra == InitInfra /\ [][NextInfra]_vars

StoreTexts == {QueryFailed.message, BulkInsertFailed.message}

\* A reply that is 500 INTERNAL_ERROR with an errorId and no text of the
\* store.
OpaqueFailure(reply, texts) ==
  /\ reply.status = 500
  /\ reply.code = "INTERNAL_ERROR"
  /\ reply.errorId # Undefined
  /\ \A t \in texts : t # reply.body

\* C24: a request for which a statement on the store failed after
\* authentication is answered 500 INTERNAL_ERROR with an errorId and without
\* the store's text; a failed ingest ends there, with no row inserted and no
\* maintenance triggered.
C24_InfrastructureFailures ==
  /\ \A r \in DOMAIN req :
       req[r].storeFailed =>
         /\ req[r].pc = "done"
         /\ OpaqueFailure(req[r], StoreTexts)
         /\ req[r].inserted = 0
         /\ req[r].spawned = 0
  /\ \A p \in DOMAIN passes :
       passes[p].pc = "failed" =>
         /\ OpaqueFailure(MaintenanceReply(passes[p]), StoreTexts)
         /\ MaintenanceReply(passes[p]).details = Undefined

(* ------------------------------------------------------------------ *)
(* Raw-body preservation                                               *)
(* ------------------------------------------------------------------ *)
\* The bytes of the model's bodies: '{', a space, the two bytes of U+00E9 in
\* UTF-8, and 0xE9 alone (U+00E9 in Latin-1).
BodyBytes == {123, 32, 195, 169, 233}

RECURSIVE BytesUpTo(_)
BytesUpTo(n) ==
  IF n = 0 THEN {<< >>}
  ELSE LET shorter == BytesUpTo(n - 1)
       IN shorter \cup {Append(b, c) : b \in shorter, c \in BodyBytes}

\* POST /api/log with every body of up to MaxBodyBytes bytes, one after the
\* other, with and without the plugins' hooks.
InitSigning == InitWith({1}, BOOLEAN, {DefaultMaxEventsPerPost})
NextSigning == \E bytes \in BytesUpTo(MaxBodyBytes) : VerifyBody(bytes)
SpecSigning == InitSigning /\ [][NextSigning]_vars

IsBypassPath(url) == url \in {"/healthz", "/js/app.js", "/static/app.js"}

\* C26: a request to the health check or to a static path increments no
\* counter and is not rejected by the limiter; a request that enters the
\* handler of an admin route has incremented the counter of its address for
\* the current minute and no other counter.
C26_RateLimitBypass ==
  \A i \in DOMAIN adminReplies :
    LET a == adminReplies[i]
    IN /\ IsBypassPath(a.url) => a.counted = {} /\ a.entered
       /\ (IsAdminReply(a) /\ a.entered) =>
            a.counted = {CounterKey("ip", a.ip, a.at)}

(* ------------------------------------------------------------------ *)
(* Shutdown order                                                      *)
(* ------------------------------------------------------------------ *)
ShutdownRequests ==
  { Request("POST", AddressA, KeyAlpha, SigValid(RawBoom), RawBoom),
    Request("GET", AddressA, KeyAlpha, SigValid(RawNoQuery), RawNoQuery) }

\* Concurrent requests and up to MaxShutdowns calls of shutdown.  A server
\* that is closing or closed gives no request to a handler; nothing runs
\* after process.exit.
InitShutdown == InitWith(Slots, BOOLEAN, {DefaultMaxEventsPerPost})

NextShutdown ==
  \/ /\ server = "listening"
     /\ \E r \in Slots, in \in ShutdownRequests :
          Arrive(r, in, TRUE, ShutdownArrivals)
  \/ \E r \in Slots :
       \/ ~Exited /\ IpIncrement(r, TRUE)
       \/ ~Exited /\ IpRead(r, TRUE)
       \/ ~Exited /\ ProjectIncrement(r, TRUE)
       \/ ~Exited /\ ProjectRead(r, TRUE, TRUE)
       \/ ~Exited /\ BulkInsert(r, TRUE)
       \/ ~Exited /\ Finish(r)
       \/ ~Exited /\ QueryLogs(r, TRUE)
  \/ Signal(MaxShutdowns)
  \/ ServerClosed
  \/ \E s \in 1..MaxShutdowns : Resume(s)

SpecShutdown == InitShutdown /\ [][NextShutdown]_vars

\* C27: the pool is ended or null only once the server is closed, and then
\* no request is between its arrival and its reply, however many times
\* shutdown has been called.
C27_ShutdownOrder ==
  pool # "open" => server = "closed" /\ Drained(req)

\* Two calls of shutdown, the first with a request in its handler, have
\* run to the end of the pool.
C27_Witness ==
  /\ Len(shutdowns) = MaxShutdowns
  /\ shutdowns[1].inFlight > 0
  /\ pool = PoolNull
  /\ \E r \in DOMAIN req : req[r].pc = "done" /\ req[r].status = 200

(* ------------------------------------------------------------------ *)
(* Cap safety: concurrent rate-limited ingests beside maintenance      *)
(* ------------------------------------------------------------------ *)
CapRequests ==
  { Request("POST", AddressA, KeyAlpha, SigValid(RawBoom), RawBoom) }

\* One more concurrent request than the cap allows, from one address and
\* one tenant, with the maintenance task an ingest spawns; the clock may
\* pass ExpiryStep minutes on while a request waits for the store.  Each
\* request has a slot of its own, taken in the order of arrival.
InitCap == InitWith(1..CapSlots, {TRUE}, {DefaultMaxEventsPerPost})

NextCap ==
  \/ \E r \in 1..CapSlots, in \in CapRequests :
       r = arrivals + 1 /\ Arrive(r, in, TRUE, CapArrivals)
  \/ \E r \in 1..CapSlots : IpIncrement(r, TRUE)
  \/ \E r \in 1..CapSlots : IpRead(r, TRUE)
  \/ \E r \in 1..CapSlots : ProjectIncrement(r, TRUE)
  \/ \E r \in 1..CapSlots : ProjectRead(r, TRUE, TRUE)
  \/ \E r \in 1..CapSlots : BulkInsert(r, TRUE)
  \/ \E r \in 1..CapSlots : Finish(r)
  \/ MaintRateLimitCleanup(1, TRUE)
  \/ MaintCounterCleanup(1, TRUE)
  \/ MaintPurge(1, TRUE)
  \/ Tick(ExpiryStep, CapElapsed)

SpecCap == InitCap /\ [][NextCap]_vars

\* The request passed the tenant tier of the limiter.
PassedProject(rq) == rq.remainingProject >= 0

\* The requests that passed the check of a tier on the bucket of request r.
PassedWith(r, passed(_), key(_)) ==
  {q \in DOMAIN req :
     passed(req[q]) /\ key(req[q]) = key(req[r])
       /\ req[q].minute = req[r].minute}

IpKeyOf(rq) == rq.ip
ProjectKeyOf(rq) == rq.project.id

\* C28: for every (kind, key, minute) bucket the number of requests that
\* passed the check of that tier is at most the cap of the tier.
C28_CapSafety ==
  \A r \in DOMAIN req :
    /\ Cardinality(PassedWith(r, PassedIp, IpKeyOf)) <= RateLimitPerIP
    /\ Cardinality(PassedWith(r, PassedProject, ProjectKeyOf))
         <= RateLimitPerProject

(* ------------------------------------------------------------------ *)
(* Process-local serialisation of the ingest path's tasks              *)
(* ------------------------------------------------------------------ *)
\* The tasks of the ingest path that have been spawned and have not ended.
TasksRunning == {t \in DOMAIN tasks : TaskPending(tasks[t])}

\* C29: within one process no two maintenance tasks of the ingest path run
\* at the same time, however long a task takes.
C29_ProcessLocalSerialisation == Cardinality(TasksRunning) <= 1

(* ------------------------------------------------------------------ *)
(* Release of the maintenance flag                                     *)
(* ------------------------------------------------------------------ *)
\* The runs of runMaintenance that are executing their cleanup statements.
PassesInCleanup ==
  {p \in DOMAIN passes :
     passes[p].pc \in {"deleteCounters", "deleteTrackers", "updateLast"}}

\* C30: a run of runMaintenance that set in_progress = true and has ended,
\* completed or failed, left in_progress = false; and while a run executes
\* its cleanup statements the flag reads true.
C30_FlagRelease ==
  /\ \A p \in DOMAIN passes :
       (passes[p].set /\ passes[p].pc \in {"completed", "failed"}) =>
         ~passes[p].left
  /\ PassesInCleanup # {} => maintenance_state.maintenance_in_progress

(* ------------------------------------------------------------------ *)
(* What triggers maintenance                                           *)
(* ------------------------------------------------------------------ *)
\* Ingests that succeed, ingests that fail their authentication or their
\* validation, and queries, all from one address.
TriggerRequests ==
  { Request("POST", AddressA, KeyAlpha, SigValid(RawBoom), RawBoom),
    Request("POST", AddressA, KeyAlpha, SigOtherDigest, RawBoom),
    Request("POST", AddressA, KeyAlpha,
            SigValid(RawInvalid(EvBadLevel, "10")),
            RawInvalid(EvBadLevel, "10")),
    Request("GET", AddressA, KeyAlpha, SigValid(RawNoQuery), RawNoQuery) }

\* One request at a time, with and without the limiter (whose cap the third
\* request of a minute exceeds), a bulk insert that may fail, and a clock
\* that may pass the maintenance interval.
InitTrigger == InitWith({1}, BOOLEAN, {DefaultMaxEventsPerPost})

NextTrigger ==
  \/ \E in \in TriggerRequests : Arrive(1, in, TRUE, TriggerArrivals)
  \/ IpIncrement(1, TRUE)
  \/ IpRead(1, TRUE)
  \/ ProjectIncrement(1, TRUE)
  \/ ProjectRead(1, TRUE, TRUE)
  \/ \E dbOk \in BOOLEAN : BulkInsert(1, dbOk)
  \/ Finish(1)
  \/ QueryLogs(1, TRUE)
  \/ \E t \in 1..TriggerArrivals : MaintRateLimitCleanup(t, TRUE)
  \/ \E t \in 1..TriggerArrivals : MaintCounterCleanup(t, TRUE)
  \/ \E t \in 1..TriggerArrivals : MaintPurge(t, TRUE)
  \/ Tick(MAINTENANCE_INTERVAL, MAINTENANCE_INTERVAL)

SpecTrigger == InitTrigger /\ [][NextTrigger]_vars

\* The step is the end of a POST that has inserted its rows and has no error
\* to report.
SuccessfulIngestEnds ==
  \E r \in DOMAIN req :
    /\ req[r].pc = "finish" /\ req'[r].pc = "done"
    /\ req[r].method = "POST"
    /\ req[r].status = 0
    /\ req[r].inserted = req[r].nEvents /\ req[r].nEvents >= 1
    /\ req'[r].status = 200

\* C31: lastMaintenanceTime changes and a maintenance task is spawned only
\* in the step that ends a successful ingest; a POST answered with an error
\* and every GET have spawned nothing.
C31_OnlySuccessfulIngestTriggers ==
  /\ [](\A r \in DOMAIN req :
          (req[r].pc = "done" /\ (req[r].method = "GET" \/ req[r].status # 200))
            => req[r].spawned = 0)
  /\ [][(\/ lastMaintenanceTime' # lastMaintenanceTime
         \/ Len(tasks') # Len(tasks)
         \/ spawns' # spawns) => SuccessfulIngestEnds]_vars

\* Maintenance is due, nothing has been spawned, and requests have failed
\* or queried: an ingest whose bulk insert failed is the last of them.
C31_Witness ==
  /\ tasks = << >> /\ lastMaintenanceTime = 0
  /\ MaintenanceDue(clock, lastMaintenanceTime)
  /\ arrivals = TriggerArrivals
  /\ req[1].pc = "done" /\ req[1].method = "POST" /\ req[1].storeFailed

(* ------------------------------------------------------------------ *)
(* The retention window                                                *)
(* ------------------------------------------------------------------ *)
\* The rows a step removes from logs.
RemovedLogs == logs \ logs'

\* C32: a maintenance step removes from logs only rows with
\* day_id < today - RetentionDays, today being the day_id the ingestion path
\* assigns at that instant; every other row stays as it is, and the projects
\* table is untouched.
C32_RetentionWindow ==
  [][/\ \A l \in RemovedLogs :
          l.row.day_id < RetentionFloor(clock, RetentionDays)
     /\ projects' = projects]_vars

(* ------------------------------------------------------------------ *)
(* The life of a counter row                                           *)
(* ------------------------------------------------------------------ *)
\* The counter row a request's next upsert writes, when its next statement
\* is an upsert.
HitKey(rq) ==
  IF rq.pc = "ipIncrement" THEN CounterKey("ip", rq.ip, rq.minute)
  ELSE CounterKey("project", ToString(rq.project.id), rq.minute)

\* The step is the upsert of request r.
Hit(r) ==
  \/ req[r].pc = "ipIncrement" /\ req'[r].pc = "ipRead"
  \/ req[r].pc = "projectIncrement" /\ req'[r].pc = "projectRead"

OrderRequests ==
  { Request("POST", AddressA, k, s, RawBoom) :
      k \in {KeyAlpha, KeyUnknown, Undefined},
      s \in {SigValid(RawBoom), SigOtherDigest, SigShort, Undefined} }
  \cup { Request("GET", AddressA, k, s, RawNoQuery) :
           k \in {KeyAlpha, KeyUnknown, Undefined},
           s \in {SigValid(RawNoQuery), SigOtherDigest, Undefined} }

\* One request at a time; the lookup in the projects table may fail.
InitOrder == InitWith({1}, BOOLEAN, {DefaultMaxEventsPerPost})

NextOrder ==
  \/ \E in \in OrderRequests, dbOk \in BOOLEAN :
       Arrive(1, in, dbOk, OrderArrivals)
  \/ IpIncrement(1, TRUE)
  \/ IpRead(1, TRUE)
  \/ ProjectIncrement(1, TRUE)
  \/ ProjectRead(1, TRUE, TRUE)
  \/ BulkInsert(1, TRUE)
  \/ Finish(1)
  \/ QueryLogs(1, TRUE)

SpecOrder == InitOrder /\ [][NextOrder]_vars

\* The request went through authentication: the route's schema did not
\* reject it, and it is a POST or the auth plugin's hook applies to it.
Authenticated(rq) ==
  /\ rq.id # 0 /\ rq.code # SchemaValidationError.code
  /\ rq.method = "POST" \/ hooksReachRoutes

\* C34: authentication stops at the first failing check, in the order key
\* present, signature present, key known, signature right: no key gives
\* PROJECT_KEY_MISSING and no signature SIGNATURE_MISSING whether or not the
\* store answers (it is not queried); with the lookup answered, an unknown
\* key gives PROJECT_NOT_FOUND and then a signature that is not the digest
\* SIGNATURE_INVALID; the tenant is attached only when all four passed.
C34_CheckOrder ==
  \A r \in DOMAIN req :
    Authenticated(req[r]) =>
      /\ req[r].project # NoProject =>
           /\ req[r].keyGiven /\ req[r].sigGiven
           /\ req[r].keyTenant = req[r].project.id /\ req[r].sigExact
      /\ ~req[r].keyGiven \/ ~req[r].sigGiven => ~req[r].lookupFailed
      /\ req[r].pc = "done" =>
           IF ~req[r].keyGiven
           THEN req[r].status = 401 /\ req[r].code = "PROJECT_KEY_MISSING"
           ELSE IF ~req[r].sigGiven
           THEN req[r].status = 401 /\ req[r].code = "SIGNATURE_MISSING"
           ELSE IF req[r].lookupFailed THEN TRUE
           ELSE IF req[r].keyTenant = 0
           THEN req[r].status = 401 /\ req[r].code = "PROJECT_NOT_FOUND"
           ELSE IF ~req[r].sigExact
           THEN req[r].status = 401 /\ req[r].code = "SIGNATURE_INVALID"
           ELSE TRUE

(* ------------------------------------------------------------------ *)
(* Transactions                                                        *)
(* ------------------------------------------------------------------ *)
\* Calls of withTransaction side by side; each awaited operation may fail.
InitTx == InitWith({1}, {FALSE}, {DefaultMaxEventsPerPost})

NextTx ==
  \/ \E t \in 1..MaxTransactions, ok \in BOOLEAN : WithTransaction(t, ok)
  \/ \E t \in 1..MaxTransactions, ok \in BOOLEAN : TxBegin(t, ok)
  \/ \E t \in 1..MaxTransactions, ok \in BOOLEAN : TxCallback(t, ok)
  \/ \E t \in 1..MaxTransactions, ok \in BOOLEAN : TxCommit(t, ok)
  \/ \E t \in 1..MaxTransactions, ok \in BOOLEAN : TxRollback(t, ok)
  \/ \E t \in 1..MaxTransactions : TxRelease(t)

SpecTx == InitTx /\ [][NextTx]_vars

\* C35: a call of withTransaction that took a connection calls commit
\* exactly when the callback returned; when the callback threw, or the commit
\* failed, it calls rollback and ends with that error; and it has released
\* the connection exactly once when it ends, never more at any time.
C35_WithTransaction ==
  \A t \in DOMAIN transactions :
    LET tx == transactions[t]
    IN /\ tx.released <= 1
       /\ tx.pc = "done" /\ tx.connection =>
            /\ tx.commitCalled <=> tx.callback = "returned"
            /\ tx.callback = "threw" =>
                 tx.rollbackCalled /\ tx.thrown = CallbackError
            /\ tx.commitCalled /\ ~tx.committed =>
                 tx.rollbackCalled /\ tx.thrown = CommitError
            /\ tx.released = 1

(* ------------------------------------------------------------------ *)
(* executeBulkInsert on lists of every length                          *)
(* ------------------------------------------------------------------ *)
\* Lists of rows as processLogEvents builds them: none, one, two.
BulkValues ==
  { ProcessLogEvents(events, 1, "alpha", StartMinute) :
      events \in {<< >>, << EvBoom >>, << EvBoom, EvFatal >>} }

InitBulk == InitWith({1}, {FALSE}, {DefaultMaxEventsPerPost})

NextBulk ==
  \E values \in BulkValues, dbOk \in BOOLEAN :
    CallExecuteBulkInsert(values, dbOk, MaxBulkCalls)

SpecBulk == InitBulk /\ [][NextBulk]_vars

\* C36: a call of the bulk insert with an empty list of rows ends with an
\* error and executes no statement; a call with a non-empty list executes
\* exactly one statement and inserts all of its rows or none.
C36_BulkInsert ==
  \A c \in DOMAIN bulkCalls :
    IF bulkCalls[c].given = 0
    THEN bulkCalls[c].threw /\ bulkCalls[c].statements = 0
    ELSE /\ bulkCalls[c].statements = 1
         /\ bulkCalls[c].inserted \in {0, bulkCalls[c].given}

(* ------------------------------------------------------------------ *)
(* The two tiers of the limiter                                        *)
(* ------------------------------------------------------------------ *)
\* The cap of the tier of a counter row.
CapOf(k) == IF k[1] = "ip" THEN RateLimitPerIP ELSE RateLimitPerProject

EvForeign ==
  [project_id |-> 2, project |-> "beta"]
    @@ [BaseEvent EXCEPT !.source = "beta", !.message = "foreign"]

RawForeign ==
  Raw("{events:[foreign,boom]}", "c3", Body(<< EvForeign, EvBoom >>),
      DefaultQuery)

\* Ingests of two tenants, with events that name the other tenant, with the
\* digest, with a value the comparison takes for the digest and with another
\* digest.
IsolationRequests ==
  { Request("POST", AddressA, KeyAlpha, SigValid(RawTwo), RawTwo),
    Request("POST", AddressA, KeyAlpha, SigValid(RawForeign), RawForeign),
    Request("POST", AddressB, KeyBeta, SigValid(RawBoom), RawBoom),
    Request("POST", AddressB, KeyBeta, SigTrailingJunk(RawForeign),
            RawForeign),
    Request("POST", AddressB, KeyBeta, SigOtherDigest, RawBoom) }

InitIsolation == InitWith(Slots, BOOLEAN, {DefaultMaxEventsPerPost})

NextIsolation ==
  \/ \E r \in Slots, in \in IsolationRequests :
       Arrive(r, in, TRUE, IsolationArrivals)
  \/ \E r \in Slots : IpIncrement(r, TRUE)
  \/ \E r \in Slots : IpRead(r, TRUE)
  \/ \E r \in Slots : ProjectIncrement(r, TRUE)
  \/ \E r \in Slots : ProjectRead(r, TRUE, TRUE)
  \/ \E r \in Slots, dbOk \in BOOLEAN : BulkInsert(r, dbOk)
  \/ \E r \in Slots : Finish(r)

SpecIsolation == InitIsolation /\ [][NextIsolation]_vars

\* The slug of the tenant with the given id.
SlugOf(id) == (CHOOSE p \in projects : p.id = id).slug

\* C38: every row an ingest inserts carries the project_id of the tenant of
\* the request's key, whatever the events of the body hold, and its source is
\* the event's source or, when the event has none, that tenant's slug.
C38_WriteIsolation ==
  /\ [](\A r \in DOMAIN req :
          /\ req[r].inserted > 0 =>
               /\ req[r].project.id = req[r].keyTenant
               /\ req[r].insertedFor = {req[r].keyTenant}
          /\ \A l \in RowsBy(req[r].id) :
               l.row.project_id = req[r].keyTenant)
  /\ [][\A r \in DOMAIN req :
          req[r].pc = "insert" /\ req'[r].pc # "insert" =>
            \A l \in logs' \ logs :
              LET event == req[r].raw.body.events[l.id - nextId + 1]
              IN /\ l.by = req[r].id
                 /\ l.row.project_id = req[r].keyTenant
                 /\ l.row.message = event.message
                 /\ l.row.source = IF Falsy(event.source)
                                   THEN SlugOf(req[r].keyTenant)
                                   ELSE event.source]_vars

\* Tenant alpha's ingest of events that name tenant beta was answered 200:
\* its two rows are alpha's, the one without a source under alpha's slug; and
\* beta has a row of its own.
C38_Witness ==
  \E r \in DOMAIN req :
    /\ req[r].pc = "done" /\ req[r].status = 200 /\ req[r].keyTenant = 1
    /\ \E l \in RowsBy(req[r].id) :
         l.row.message = "foreign" /\ l.row.project_id = 1
         /\ l.row.source = "beta"
    /\ \E l \in RowsBy(req[r].id) :
         l.row.message = "boom" /\ l.row.source = "alpha"
    /\ \E l \in logs : l.row.project_id = 2 /\ l.row.source = "beta"

(* ------------------------------------------------------------------ *)
(* The manual purge, per tenant                                        *)
(* ------------------------------------------------------------------ *)
\* Ingests of two tenants with retention_days 3 and 1, days passing, and
\* calls of runDailyPurge, in processes of several time zones.
InitPurge == InitIn({1}, {FALSE}, {DefaultMaxEventsPerPost}, TimeZones)

NextPurge ==
  \/ \E in \in Requests : Arrive(1, in, TRUE, PurgeArrivals)
  \/ BulkInsert(1, TRUE)
  \/ Finish(1)
  \/ \E dbOk \in BOOLEAN : DailyPurgeStart(MaxPurges, dbOk)
  \/ \E p \in 1..MaxPurges, dbOk \in BOOLEAN : DailyPurgeDelete(p, dbOk)
  \/ Tick(MinutesPerDay, PurgeElapsed)

SpecPurge == InitPurge /\ [][NextPurge]_vars

\* C39: the DELETE that runDailyPurge executes for a tenant removes exactly
\* the rows of that tenant with day_id < today - retention_days of that
\* tenant, today being the day_id the ingestion path assigns at that instant:
\* no row of another tenant, none inside the tenant's window; and deletedLogs
\* counts the rows removed.
C39_PerTenantPurge ==
  /\ [](\A p \in DOMAIN purges : purges[p].deletedLogs = purges[p].removed)
  /\ [][\A p \in DOMAIN purges :
          /\ purges[p].pc = "delete"
          /\ purges'[p].todo # purges[p].todo
          => LET project == Head(purges[p].todo)
             IN RemovedLogs =
                  {l \in logs :
                     /\ l.row.project_id = project.id
                     /\ l.row.day_id <
                          RetentionFloor(clock, project.retention_days)}]_vars

============================================================================
